---- MODULE Spec2Model ----
(***************************************************************************)
(* Model of emmetio/action-utils.                                          *)
(*                                                                         *)
(* Part 1: AbbreviationTrackingController (src/src/tracker.ts): the three  *)
(* maps keyed by editor id (active trackers, restore cache, last caret),   *)
(* the editor documents they read and write, and one action per public     *)
(* method of the controller.                                               *)
(*                                                                         *)
(* Text is a sequence of one-character strings; offsets are 0-based and    *)
(* ranges are half-open <<start, end>> pairs as in the source.             *)
(***************************************************************************)
EXTENDS Integers, Sequences, FiniteSets, TLC

\* ------------------------------------------------------------------ bounds
\* Longest document of an editor when a single editor is open.
MaxLen == 3
\* Longest document of an editor when two editors are open.
MaxLenMulti == 1
\* Longest sequence of controller calls explored with a single editor open.
MaxCalls == 4
\* Longest sequence of controller calls explored with two editors open.
MaxCallsMulti == 3
\* Longest typing session: keystrokes and caret moves of one editor.
MaxKeys == 5
\* Most pieces (tags, runs of text, stylesheet tokens) of a scanned document.
MaxPieces == 3
\* Longest document in which a tracker is active before a single edit.
MaxLenTracked == 2
\* Most pieces in the body of a rule block scanned for its properties.
MaxBody == 3

\* ------------------------------------------------------ values and helpers
Editors == {"e1", "e2"}

\* "\n" stands for white space and line breaks, "a" for identifier
\* characters, "(" and ")" for a character pair, "<" is the JSX prefix.
Chars == {"\n", "a", "(", ")", "<"}

\* `undefined` / `null` results and absent map entries.
None == [type |-> "none"]
\* An absent entry of the lastPos map.
NoPos == -1

Min(a, b) == IF a < b THEN a ELSE b
Max(a, b) == IF a > b THEN a ELSE b
Clamp(n, len) == Max(0, Min(n, len))

\* String.prototype.slice(n) for n >= 0.
Slice(s, n) == SubSeq(s, Min(n, Len(s)) + 1, Len(s))

\* EditorProxy.substr(from, to), with the clamping of String.substring.
Substr(d, from, to) ==
    LET f == Clamp(from, Len(d))
        t == Clamp(to, Len(d))
    IN  SubSeq(d, Min(f, t) + 1, Max(f, t))

\* EditorProxy.replace('', from, to).
ReplaceEmpty(d, from, to) ==
    LET f == Clamp(from, Len(d))
        t == Clamp(to, Len(d))
    IN  SubSeq(d, 1, Min(f, t)) \o SubSeq(d, Max(f, t) + 1, Len(d))

JSX_PREFIX == "<"
pairs == [c \in {"("} |-> ")"]
pairsEnd == {")"}

\* /^[a-zA-Z.#\[\(]$/
reJSXAbbrStart(ch) == ch \in {"a", "("}

\* /^[\s>;"\']?[a-zA-Z.#!@\[\(]$/
reWordBound(prefix) ==
    \/ Len(prefix) = 1 /\ prefix[1] \in {"a", "("}
    \/ Len(prefix) = 2 /\ prefix[1] \in {"\n"} /\ prefix[2] \in {"a", "("}

\* /^[\s;"\']?[a-zA-Z!@]$/
reStylesheetWordBound(prefix) ==
    \/ Len(prefix) = 1 /\ prefix[1] \in {"a"}
    \/ Len(prefix) = 2 /\ prefix[1] \in {"\n"} /\ prefix[2] \in {"a"}

\* /[\r\n]/
HasLineBreak(s) == \E i \in 1..Len(s) : s[i] = "\n"

\* ------------------------------------------------- abbreviation parser
\* markupAbbreviation() / stylesheetAbbreviation() of the `emmet` package:
\* the position of the first character the parser rejects, or -1 when the
\* text parses. Identifier characters and balanced groups parse.
RECURSIVE ParseFrom(_, _, _)
ParseFrom(s, i, depth) ==
    IF i > Len(s) THEN (IF depth = 0 THEN -1 ELSE Len(s))
    ELSE IF s[i] = "a" THEN ParseFrom(s, i + 1, depth)
    ELSE IF s[i] = "(" THEN ParseFrom(s, i + 1, depth + 1)
    ELSE IF s[i] = ")" /\ depth > 0 THEN ParseFrom(s, i + 1, depth - 1)
    ELSE i - 1

ParseError(s) == ParseFrom(s, 1, 0)

\* isSimpleMarkupAbbreviation(): a single childless element (or nothing).
isSimpleMarkupAbbreviation(s) == \A i \in 1..Len(s) : s[i] = "a"

\* expand(): preview of the parsed abbreviation. `expander` is what the
\* external expander does with it: "snippet" (the abbreviation names one),
\* "fallback" (a stylesheet abbreviation naming none is echoed as a
\* property, `a` -> `a: ;`) or "throws".
Expand(s, type, expander) ==
    IF type = "stylesheet"
    THEN (IF expander = "snippet" THEN <<"s", ":", " ", ";">> ELSE s \o <<":", " ", ";">>)
    ELSE <<"<">> \o s \o <<">">>

NoError == [message |-> "", pos |-> -1]

\* Activation configs (UserConfig): abbreviation type, syntax and the name
\* of the abbreviation context.
Syntaxes == {"html", "jsx", "css"}
isCSS(syntax) == syntax = "css"
isJSX(syntax) == syntax = "jsx"
isHTML(syntax) == syntax = "html"
syntaxType(syntax) == IF syntax = "css" THEN "stylesheet" ELSE "markup"
ScopeSection == "@@section"
Scopes == {ScopeSection, "@@property"}
NoContext == "none"

Config(type, syntax, context) ==
    [type |-> type, syntax |-> syntax, context |-> context]

\* ------------------------------------------------------- createTracker
\* Variant of IsRejectedText that lets line breaks through.
IsRejectedText_NoLineBreak(abbreviation) == abbreviation = <<>>

\* Line 332: text createTracker refuses to track.
IsRejectedText(abbreviation) == abbreviation = <<>> \/ HasLineBreak(abbreviation)

\* params: [config, offset, forced]; `expander` as in Expand.
createTracker(d, range, params, expander) ==
    IF range[1] >= range[2] THEN None
    ELSE
      LET abbreviation ==
              IF params.offset # 0
              THEN Slice(Substr(d, range[1], range[2]), params.offset)
              ELSE Substr(d, range[1], range[2])
          base == [ abbreviation |-> abbreviation,
                    range        |-> range,
                    config       |-> params.config,
                    forced       |-> params.forced,
                    offset       |-> params.offset,
                    lastPos      |-> range[2],
                    lastLength   |-> Len(d) ]
          err == ParseError(abbreviation)
      IN  IF IsRejectedText(abbreviation) THEN None
          ELSE IF err = -1 /\ expander # "throws"
          THEN base @@ [ type    |-> "abbreviation",
                         simple  |-> IF params.config.type = "stylesheet"
                                     THEN FALSE
                                     ELSE isSimpleMarkupAbbreviation(abbreviation),
                         preview |-> Expand(abbreviation, params.config.type, expander),
                         error   |-> NoError ]
          ELSE base @@ [ type    |-> "error",
                         simple  |-> FALSE,
                         preview |-> <<>>,
                         error   |-> IF err # -1
                                     THEN [message |-> "parse", pos |-> err]
                                     ELSE [message |-> "expand", pos |-> -1] ]

\* ------------------------------------------------------------- state
VARIABLES
    open,       \* ids of the editors the host has open
    doc,        \* editor id -> document text
    trackers,   \* editor id -> active tracker or None
    cache,      \* editor id -> cached tracker or None
    lastPos,    \* editor id -> last known caret or NoPos
    call,       \* the last controller call and what it did
    steps       \* number of controller calls made so far

vars == <<open, doc, trackers, cache, lastPos, call, steps>>

\* The controller's maps, the documents and the editor-side effects of the
\* call in progress, threaded through the methods below.
Ctl == [doc |-> doc, trackers |-> trackers, cache |-> cache, lastPos |-> lastPos,
        mark |-> 0, unmark |-> 0, replace |-> 0]

\* A method result: the state it leaves and the value it returns.
Result(c, ret, path) == [c |-> c, ret |-> ret, path |-> path]

\* Variant of setLastPos that keeps one caret for all editors.
setLastPos_AllEditors(c, e, pos) == [c EXCEPT !.lastPos = [f \in Editors |-> pos]]

\* Variant of storeTracker that stores nothing.
storeTracker_Noop(c, e, tracker) == c

getTracker(c, e) == c.trackers[e]
getLastPost(c, e) == c.lastPos[e]
setLastPos(c, e, pos) == [c EXCEPT !.lastPos[e] = pos]
getStoredTracker(c, e) == c.cache[e]
storeTracker(c, e, tracker) == [c EXCEPT !.cache[e] = tracker]

\* Variant of stopTracking that always clears the cache entry.
stopTracking_ClearsCache(c, e, skipRemove, force) ==
    LET tracker == c.trackers[e]
    IN  IF tracker = None THEN c
        ELSE
          LET c1 == [c EXCEPT !.unmark = @ + 1]
              c2 == IF tracker.forced /\ ~skipRemove
                    THEN [c1 EXCEPT
                            !.doc[e] = ReplaceEmpty(@, tracker.range[1], tracker.range[2]),
                            !.replace = @ + 1]
                    ELSE c1
          IN  [c2 EXCEPT !.cache[e] = None, !.trackers[e] = None]

\* ---------------------------------------------------------- stopTracking
\* Variant of stopTracking that removes the text of a forced tracker even
\* when skipRemove is set.
stopTracking_IgnoresSkipRemove(c, e, skipRemove, force) ==
    LET tracker == getTracker(c, e)
    IN  IF tracker = None THEN c
        ELSE
          LET c1 == [c EXCEPT !.unmark = @ + 1]
              c2 == IF tracker.forced
                    THEN [c1 EXCEPT
                            !.doc[e] = ReplaceEmpty(@, tracker.range[1], tracker.range[2]),
                            !.replace = @ + 1]
                    ELSE c1
              c3 == IF force
                    THEN [c2 EXCEPT !.cache[e] = None]
                    ELSE storeTracker(c2, e, tracker)
          IN  [c3 EXCEPT !.trackers[e] = None]

\* Variant of stopTracking that deletes the cached tracker on a forced
\* stop also when no tracker is active.
stopTracking_ForceClearsAlways(c, e, skipRemove, force) ==
    LET tracker == getTracker(c, e)
    IN  IF tracker = None
        THEN (IF force THEN [c EXCEPT !.cache[e] = None] ELSE c)
        ELSE
          LET c1 == [c EXCEPT !.unmark = @ + 1]
              c2 == IF tracker.forced /\ ~skipRemove
                    THEN [c1 EXCEPT
                            !.doc[e] = ReplaceEmpty(@, tracker.range[1], tracker.range[2]),
                            !.replace = @ + 1]
                    ELSE c1
              c3 == IF force
                    THEN [c2 EXCEPT !.cache[e] = None]
                    ELSE storeTracker(c2, e, tracker)
          IN  [c3 EXCEPT !.trackers[e] = None]

stopTracking(c, e, skipRemove, force) ==
    LET tracker == getTracker(c, e)
    IN  IF tracker = None THEN c
        ELSE
          LET c1 == [c EXCEPT !.unmark = @ + 1]
              c2 == IF tracker.forced /\ ~skipRemove
                    THEN [c1 EXCEPT
                            !.doc[e] = ReplaceEmpty(@, tracker.range[1], tracker.range[2]),
                            !.replace = @ + 1]
                    ELSE c1
              c3 == IF force
                    THEN [c2 EXCEPT !.cache[e] = None]
                    ELSE storeTracker(c2, e, tracker)
          IN  [c3 EXCEPT !.trackers[e] = None]

\* --------------------------------------------------------- startTracking
\* Variant of startTracking that leaves the active tracker in place when
\* the new one cannot be created.
startTracking_KeepsActive(c, e, start, pos, params, expander) ==
    LET tracker == createTracker(c.doc[e], <<start, pos>>, params, expander)
    IN  IF tracker # None
        THEN Result([c EXCEPT !.trackers[e] = tracker], tracker, "started")
        ELSE Result(c, None, "startfail")

startTracking(c, e, start, pos, params, expander) ==
    LET tracker == createTracker(c.doc[e], <<start, pos>>, params, expander)
    IN  IF tracker # None
        THEN Result([c EXCEPT !.trackers[e] = tracker], tracker, "started")
        ELSE Result([c EXCEPT !.trackers[e] = None], None, "startfail")

\* Variant of restoreTracker that compares the text from range[0],
\* ignoring the prefix offset.
restoreTracker_NoOffset(c, e, pos) ==
    LET tracker == c.cache[e]
    IN  IF tracker # None /\ tracker.range[1] <= pos /\ tracker.range[2] >= pos
        THEN
          LET c1 == [c EXCEPT !.cache[e] = None]
          IN  IF Substr(c.doc[e], tracker.range[1], tracker.range[2])
                    = tracker.abbreviation
              THEN Result([c1 EXCEPT !.trackers[e] = tracker], tracker, "restored")
              ELSE Result(c1, None, "mismatch")
        ELSE Result(c, None, IF tracker = None THEN "nocache" ELSE "outside")

\* Variant of restoreTracker that discards the cached tracker also when
\* the caret is outside its range.
restoreTracker_DropOutside(c, e, pos) ==
    LET tracker == c.cache[e]
        c1 == [c EXCEPT !.cache[e] = None]
    IN  IF tracker # None /\ tracker.range[1] <= pos /\ tracker.range[2] >= pos
        THEN
          IF Substr(c.doc[e], tracker.range[1] + tracker.offset, tracker.range[2])
                = tracker.abbreviation
          THEN Result([c1 EXCEPT !.trackers[e] = tracker], tracker, "restored")
          ELSE Result(c1, None, "mismatch")
        ELSE Result(c1, None, IF tracker = None THEN "nocache" ELSE "outside")

\* -------------------------------------------------------- restoreTracker
restoreTracker(c, e, pos) ==
    LET tracker == getStoredTracker(c, e)
    IN  IF tracker # None /\ tracker.range[1] <= pos /\ tracker.range[2] >= pos
        THEN
          LET c1 == [c EXCEPT !.cache[e] = None]
          IN  IF Substr(c.doc[e], tracker.range[1] + tracker.offset, tracker.range[2])
                    = tracker.abbreviation
              THEN Result([c1 EXCEPT !.trackers[e] = tracker], tracker, "restored")
              ELSE Result(c1, None, "mismatch")
        ELSE Result(c, None, IF tracker = None THEN "nocache" ELSE "outside")

\* Variant of updateRange that does not shrink the range for text removed
\* just before its end.
updateRange_ShrinkInsideOnly(range, delta, lp) ==
    IF delta < 0
    THEN IF lp = range[1]
         THEN <<range[1] + delta, range[2] + delta>>
         ELSE IF range[1] < lp /\ lp < range[2]
         THEN <<range[1], range[2] + delta>>
         ELSE range
    ELSE IF delta > 0 /\ range[1] <= lp /\ lp <= range[2]
    THEN <<range[1], range[2] + delta>>
    ELSE range

\* Variant of updateRange that does not grow the range for text inserted
\* at its end.
updateRange_NoGrowAtEnd(range, delta, lp) ==
    IF delta < 0
    THEN IF lp = range[1]
         THEN <<range[1] + delta, range[2] + delta>>
         ELSE IF range[1] < lp /\ lp <= range[2]
         THEN <<range[1], range[2] + delta>>
         ELSE range
    ELSE IF delta > 0 /\ range[1] <= lp /\ lp < range[2]
    THEN <<range[1], range[2] + delta>>
    ELSE range

\* ----------------------------------------------------------- updateRange
updateRange(range, delta, lp) ==
    IF delta < 0
    THEN IF lp = range[1]
         THEN <<range[1] + delta, range[2] + delta>>
         ELSE IF range[1] < lp /\ lp <= range[2]
         THEN <<range[1], range[2] + delta>>
         ELSE range
    ELSE IF delta > 0 /\ range[1] <= lp /\ lp <= range[2]
    THEN <<range[1], range[2] + delta>>
    ELSE range

\* -------------------------------------------------------- isValidTracker
\* abbreviation[i] of the source is abbreviation[i + 1] here; an index
\* outside the text gives `undefined`, which is no pair end.
RECURSIVE TargetPos(_, _, _)
TargetPos(abbreviation, start, targetPos) ==
    IF targetPos > start
       /\ (targetPos - start) \in 1..Len(abbreviation)
       /\ abbreviation[targetPos - start] \in pairsEnd
    THEN TargetPos(abbreviation, start, targetPos - 1)
    ELSE targetPos

isValidTracker(tracker, range, pos) ==
    IF tracker.type = "error"
    THEN IF range[2] = pos THEN FALSE
         ELSE TargetPos(tracker.abbreviation, range[1], range[2]) # pos
    ELSE TRUE

\* ---------------------------------------------------- activation context
CssTokenTypes == {"selector", "propertyName", "propertyValue"}

\* Line of the first line of `s`, trimmed: its length.
RECURSIVE FirstLine(_)
FirstLine(s) ==
    IF s = <<>> \/ s[1] = "\n" THEN <<>> ELSE <<s[1]>> \o FirstLine(Tail(s))

isTypingBeforeSelector(d, pos, current) ==
    IF current # None /\ current.type = "selector" /\ current.range[1] = pos - 1
    THEN Len(FirstLine(Substr(d, current.range[1], current.range[2]))) = 1
    ELSE FALSE

\* ctx: the CSSContext of the css matcher, [current, scope, inline].
getCSSActivationContext(d, pos, syntax, ctx) ==
    IF ctx.current = None THEN None
    ELSE IF \/ ctx.current.type = "propertyName"
            \/ ctx.current.type = "propertyValue"
            \/ isTypingBeforeSelector(d, pos, ctx.current)
    THEN Config("stylesheet", syntax, ctx.scope)
    ELSE None

\* scan: what the matchers report at pos, [css: CSSContext or None,
\* current: whether a tag is directly under pos].
getActivationContext(d, pos, syntax, scan) ==
    IF isCSS(syntax) THEN getCSSActivationContext(d, pos, syntax, scan.css)
    ELSE IF isHTML(syntax)
    THEN IF scan.css # None
         THEN getCSSActivationContext(d, pos, "css", scan.css)
         ELSE IF ~scan.current
         THEN Config("markup", syntax, NoContext)
         ELSE None
    ELSE Config(syntaxType(syntax), syntax, NoContext)

\* Token under pos as the css matcher can report it: start < pos <= end.
CssCurrents(pos, len) ==
    {None} \cup
    { [type |-> t, range |-> <<s, e>>] :
        t \in CssTokenTypes, s \in Max(0, pos - 2)..(pos - 1), e \in pos..Max(pos, len) }

CssContexts(pos, len) ==
    { [current |-> cur, scope |-> sc] : cur \in CssCurrents(pos, len), sc \in Scopes }

Scans(syntax, pos, len) ==
    IF isCSS(syntax)
    THEN { [css |-> x, current |-> FALSE] : x \in CssContexts(pos, len) }
    ELSE IF isHTML(syntax)
    THEN { [css |-> x, current |-> b] :
             x \in CssContexts(pos, len) \cup {None}, b \in BOOLEAN }
    ELSE { [css |-> None, current |-> FALSE] }

\* Every answer getActivationContext can give at pos for some scan.
ActivationContexts(d, pos, syntax) ==
    { getActivationContext(d, pos, syntax, scan) : scan \in Scans(syntax, pos, Len(d)) }

\* What the expander does while the user edits: only stylesheet previews
\* depend on it.
ExpanderAnswers(config) ==
    IF config.type = "stylesheet" THEN {"snippet", "fallback"} ELSE {"snippet"}

\* /^:\s*;?$/ applied to preview.slice(abbreviation.length)
RECURSIVE SkipSpace(_)
SkipSpace(s) == IF s # <<>> /\ s[1] \in {" ", "\n"} THEN SkipSpace(Tail(s)) ELSE s

IsFallbackTail(s) ==
    /\ s # <<>>
    /\ s[1] = ":"
    /\ SkipSpace(Tail(s)) \in {<<>>, <<";">>}

StartsWith(s, p) == Len(s) >= Len(p) /\ SubSeq(s, 1, Len(p)) = p

\* ------------------------------------------------------------ the calls
\* End of a public call `op` on editor e at pos: the maps and documents
\* become those of the result r, and the call is recorded.
Commit(r, op, e, pos) ==
    /\ doc' = r.c.doc
    /\ trackers' = r.c.trackers
    /\ cache' = r.c.cache
    /\ lastPos' = r.c.lastPos
    /\ call' = [op |-> op, ed |-> e, path |-> r.path,
                mark |-> r.c.mark, unmark |-> r.c.unmark, replace |-> r.c.replace]
    /\ steps' = steps + 1
    /\ UNCHANGED open

\* typingAbbreviation, lines 220-234: the range a typed character opens,
\* start = -1 when the character does not start an abbreviation.
TypingStart(d, pos, syntax) ==
    LET prefix == Substr(d, Max(0, pos - 2), pos)
    IN  IF isJSX(syntax)
        THEN IF Len(prefix) = 2 /\ prefix[1] = JSX_PREFIX /\ reJSXAbbrStart(prefix[2])
             THEN [start |-> pos - 2, offset |-> 1, prefix |-> prefix]
             ELSE [start |-> -1, offset |-> 0, prefix |-> prefix]
        ELSE IF reWordBound(prefix)
        THEN [start |-> pos - 1, offset |-> 0, prefix |-> prefix]
        ELSE [start |-> -1, offset |-> 0, prefix |-> prefix]

\* typingAbbreviation, lines 237-241: the end of the range, one further
\* when the typed character is followed by its paired character.
TypingEnd(d, pos, prefix) ==
    LET lastCh == prefix[Len(prefix)]
    IN  IF lastCh \in DOMAIN pairs /\ Substr(d, pos, pos + 1) = <<pairs[lastCh]>>
        THEN pos + 1
        ELSE pos

\* Variant of TypingTrack that returns nothing for the fallback preview but
\* leaves the tracker active.
TypingTrack_NoStop(c, e, t, end, config, expander) ==
    LET r == startTracking(c, e, t.start, end,
                           [offset |-> t.offset, config |-> config, forced |-> FALSE],
                           expander)
        tracker == r.ret
    IN  IF /\ tracker # None
           /\ tracker.type = "abbreviation"
           /\ config.context = ScopeSection
           /\ StartsWith(tracker.preview, tracker.abbreviation)
           /\ IsFallbackTail(Slice(tracker.preview, Len(tracker.abbreviation)))
        THEN Result(r.c, None, "suppressed")
        ELSE r

\* typingAbbreviation, lines 252-268: start tracking with the activation
\* config and drop a section tracker whose preview is the property fallback.
TypingTrack(c, e, t, end, config, expander) ==
    LET r == startTracking(c, e, t.start, end,
                           [offset |-> t.offset, config |-> config, forced |-> FALSE],
                           expander)
        tracker == r.ret
    IN  IF /\ tracker # None
           /\ tracker.type = "abbreviation"
           /\ config.context = ScopeSection
           /\ StartsWith(tracker.preview, tracker.abbreviation)
           /\ IsFallbackTail(Slice(tracker.preview, Len(tracker.abbreviation)))
        THEN Result(stopTracking(r.c, e, FALSE, FALSE), None, "suppressed")
        ELSE r

\* typingAbbreviation(editor, pos) running on state c as part of call `op`.
typingAbbreviation(c, e, pos, op) ==
    \E syntax \in Syntaxes :
      LET t == TypingStart(c.doc[e], pos, syntax)
      IN  IF t.start >= 0
          THEN \E config \in ActivationContexts(c.doc[e], pos, syntax) :
                 IF config # None
                 THEN IF config.type = "stylesheet" /\ ~reStylesheetWordBound(t.prefix)
                      THEN Commit(Result(c, None, "cssbound"), op, e, pos)
                      ELSE \E expander \in ExpanderAnswers(config) :
                             Commit(TypingTrack(c, e, t, TypingEnd(c.doc[e], pos, t.prefix),
                                                config, expander), op, e, pos)
                 ELSE Commit(Result(c, None, "nocontext"), op, e, pos)
          ELSE Commit(Result(c, None, "nostart"), op, e, pos)

\* Variant of OutsideRange that misses a caret before the range.
OutsideRange_NoLower(lp, range) == lp > range[2]

\* handleChange, line 428: the last edit position left the tracked range.
OutsideRange(lp, range) == lp < range[1] \/ lp > range[2]

\* Variant of GateRejects that applies the gate to forced trackers too.
GateRejects_Forced(tracker, nextTracker, range, pos) ==
    ~isValidTracker(nextTracker, range, pos)

\* handleChange, line 449: the validity gate, skipped for forced trackers.
GateRejects(tracker, nextTracker, range, pos) ==
    ~tracker.forced /\ ~isValidTracker(nextTracker, range, pos)

\* Variant of Reconcile that stores the adjusted range in a forced tracker
\* left with an empty range.
Reconcile_StoresEmptyRange(c, e, pos, tracker, expander) ==
    LET lp == tracker.lastPos
        range == tracker.range
    IN  IF OutsideRange(lp, range)
        THEN Result(stopTracking(c, e, FALSE, FALSE), None, "outside")
        ELSE
          LET length == Len(c.doc[e])
              delta == length - tracker.lastLength
              range2 == updateRange(range, delta, lp)
          IN  IF range2[1] = range2[2] /\ tracker.forced
              THEN Result([c EXCEPT !.trackers[e].abbreviation = <<>>,
                                    !.trackers[e].range = range2],
                          [tracker EXCEPT !.abbreviation = <<>>, !.range = range2],
                          "forcedEmpty")
              ELSE
                LET nextTracker == createTracker(c.doc[e], range2, tracker, expander)
                IN  IF \/ nextTracker = None
                       \/ GateRejects(tracker, nextTracker, range2, pos)
                    THEN Result(stopTracking(c, e, FALSE, FALSE), None,
                                IF nextTracker = None THEN "null" ELSE "invalid")
                    ELSE
                      LET nt == [nextTracker EXCEPT !.lastPos = pos]
                      IN  Result([c EXCEPT !.trackers[e] = nt, !.mark = @ + 1],
                                 nt, "updated")

\* Variant of Reconcile whose new tracker keeps the document length the old
\* one had recorded.
Reconcile_StaleLength(c, e, pos, tracker, expander) ==
    LET lp == tracker.lastPos
        range == tracker.range
    IN  IF OutsideRange(lp, range)
        THEN Result(stopTracking(c, e, FALSE, FALSE), None, "outside")
        ELSE
          LET length == Len(c.doc[e])
              delta == length - tracker.lastLength
              range2 == updateRange(range, delta, lp)
          IN  IF range2[1] = range2[2] /\ tracker.forced
              THEN Result([c EXCEPT !.trackers[e].abbreviation = <<>>],
                          [tracker EXCEPT !.abbreviation = <<>>], "forcedEmpty")
              ELSE
                LET nextTracker == createTracker(c.doc[e], range2, tracker, expander)
                IN  IF \/ nextTracker = None
                       \/ GateRejects(tracker, nextTracker, range2, pos)
                    THEN Result(stopTracking(c, e, FALSE, FALSE), None,
                                IF nextTracker = None THEN "null" ELSE "invalid")
                    ELSE
                      LET nt == [nextTracker EXCEPT !.lastPos = pos,
                                                    !.lastLength = tracker.lastLength]
                      IN  Result([c EXCEPT !.trackers[e] = nt, !.mark = @ + 1],
                                 nt, "updated")

\* handleChange, lines 425-458: reconcile the active tracker with an edit.
Reconcile(c, e, pos, tracker, expander) ==
    LET lp == tracker.lastPos
        range == tracker.range
    IN  IF OutsideRange(lp, range)
        THEN Result(stopTracking(c, e, FALSE, FALSE), None, "outside")
        ELSE
          LET length == Len(c.doc[e])
              delta == length - tracker.lastLength
              range2 == updateRange(range, delta, lp)
          IN  IF range2[1] = range2[2] /\ tracker.forced
              THEN Result([c EXCEPT !.trackers[e].abbreviation = <<>>],
                          [tracker EXCEPT !.abbreviation = <<>>], "forcedEmpty")
              ELSE
                LET nextTracker == createTracker(c.doc[e], range2, tracker, expander)
                IN  IF \/ nextTracker = None
                       \/ GateRejects(tracker, nextTracker, range2, pos)
                    THEN Result(stopTracking(c, e, FALSE, FALSE), None,
                                IF nextTracker = None THEN "null" ELSE "invalid")
                    ELSE
                      LET nt == [nextTracker EXCEPT !.lastPos = pos]
                      IN  Result([c EXCEPT !.trackers[e] = nt, !.mark = @ + 1],
                                 nt, "updated")

\* Variant of CaretAdvanced that accepts any known caret.
CaretAdvanced_AnyKnown(editorLastPos, pos) == editorLastPos # NoPos

\* handleChange, line 419: the caret advanced by one from the known caret.
CaretAdvanced(editorLastPos, pos) == editorLastPos # NoPos /\ editorLastPos = pos - 1

\* handleChange(editor, pos) on state c0 (the document already edited).
handleChange(c0, e, pos) ==
    LET tracker == getTracker(c0, e)
        editorLastPos == getLastPost(c0, e)
        c == setLastPos(c0, e, pos)
    IN  IF tracker = None
        THEN IF CaretAdvanced(editorLastPos, pos)
             THEN \E allowTracking \in BOOLEAN :
                    IF allowTracking
                    THEN typingAbbreviation(c, e, pos, "handleChange")
                    ELSE Commit(Result(c, None, "denied"), "handleChange", e, pos)
             ELSE Commit(Result(c, None, "nocaret"), "handleChange", e, pos)
        ELSE \E expander \in ExpanderAnswers(tracker.config) :
               Commit(Reconcile(c, e, pos, tracker, expander), "handleChange", e, pos)

\* Variant of handleSelectionChange that moves the tracker's lastPos only
\* to a caret within the tracked range.
handleSelectionChange_InRangeOnly(c0, e, pos) ==
    LET c == setLastPos(c0, e, pos)
        tracker == getTracker(c, e)
    IN  IF tracker # None
        THEN IF OutsideRange(pos, tracker.range)
             THEN Result(c, tracker, "active")
             ELSE Result([c EXCEPT !.trackers[e].lastPos = pos],
                         [tracker EXCEPT !.lastPos = pos], "active")
        ELSE
          LET r == restoreTracker(c, e, pos)
          IN  IF r.ret # None
              THEN Result([r.c EXCEPT !.trackers[e].lastPos = pos],
                          [r.ret EXCEPT !.lastPos = pos], r.path)
              ELSE r

\* Variant of handleSelectionChange that ends tracking when the caret
\* leaves the tracked range.
handleSelectionChange_StopsOutside(c0, e, pos) ==
    LET c == setLastPos(c0, e, pos)
        tracker == getTracker(c, e)
    IN  IF tracker # None
        THEN IF OutsideRange(pos, tracker.range)
             THEN Result(stopTracking(c, e, FALSE, FALSE), None, "active")
             ELSE Result([c EXCEPT !.trackers[e].lastPos = pos],
                         [tracker EXCEPT !.lastPos = pos], "active")
        ELSE
          LET r == restoreTracker(c, e, pos)
          IN  IF r.ret # None
              THEN Result([r.c EXCEPT !.trackers[e].lastPos = pos],
                          [r.ret EXCEPT !.lastPos = pos], r.path)
              ELSE r

\* handleSelectionChange(editor, pos)
handleSelectionChange(c0, e, pos) ==
    LET c == setLastPos(c0, e, pos)
        tracker == getTracker(c, e)
    IN  IF tracker # None
        THEN Result([c EXCEPT !.trackers[e].lastPos = pos],
                    [tracker EXCEPT !.lastPos = pos], "active")
        ELSE
          LET r == restoreTracker(c, e, pos)
          IN  IF r.ret # None
              THEN Result([r.c EXCEPT !.trackers[e].lastPos = pos],
                          [r.ret EXCEPT !.lastPos = pos], r.path)
              ELSE r

\* Variant of disposeEditor that keeps the last caret of the editor.
disposeEditor_KeepsLastPos(c, e) ==
    [c EXCEPT !.cache[e] = None, !.trackers[e] = None]

\* disposeEditor(editor)
disposeEditor(c, e) ==
    [c EXCEPT !.cache[e] = None, !.trackers[e] = None, !.lastPos[e] = NoPos]

\* --------------------------------------------------------- environment
\* Longest document the open editors may reach.
LenBound == IF Cardinality(open) > 1 THEN MaxLenMulti ELSE MaxLen

\* Number of controller calls the open editors may receive.
CallBound == IF Cardinality(open) > 1 THEN MaxCallsMulti ELSE MaxCalls

\* Where the caret of e can be: at the last position the host reported,
\* anywhere when none is known or the document was cut short of it.
Carets(e) ==
    IF lastPos[e] = NoPos \/ lastPos[e] > Len(doc[e])
    THEN 0..Len(doc[e])
    ELSE {lastPos[e]}

\* One keystroke at caret p in document d and the caret it leaves: a
\* character typed, the character before p deleted, the one after p deleted.
Edits(d, p) ==
    { [doc |-> SubSeq(d, 1, p) \o <<ch>> \o SubSeq(d, p + 1, Len(d)), pos |-> p + 1] :
        ch \in (IF Len(d) < LenBound THEN Chars ELSE {}) }
    \cup
    (IF p > 0
     THEN {[doc |-> SubSeq(d, 1, p - 1) \o SubSeq(d, p + 1, Len(d)), pos |-> p - 1]}
     ELSE {})
    \cup
    (IF p < Len(d)
     THEN {[doc |-> SubSeq(d, 1, p) \o SubSeq(d, p + 2, Len(d)), pos |-> p]}
     ELSE {})

\* Configs editor.config(pos) can answer.
UserConfigs ==
    { Config("markup", "html", NoContext), Config("stylesheet", "css", "@@property") }

\* ------------------------------------------------------------- actions
Init ==
    /\ open = {"e1"}
    /\ steps = 0
    /\ doc = [e \in Editors |-> <<>>]
    /\ trackers = [e \in Editors |-> None]
    /\ cache = [e \in Editors |-> None]
    /\ lastPos = [e \in Editors |-> NoPos]
    /\ call = [op |-> "init", ed |-> "e1", path |-> "init",
               mark |-> 0, unmark |-> 0, replace |-> 0]

InitMulti ==
    /\ open = Editors
    /\ steps = 0
    /\ doc = [e \in Editors |-> <<>>]
    /\ trackers = [e \in Editors |-> None]
    /\ cache = [e \in Editors |-> None]
    /\ lastPos = [e \in Editors |-> NoPos]
    /\ call = [op |-> "init", ed |-> "e1", path |-> "init",
               mark |-> 0, unmark |-> 0, replace |-> 0]

\* One edit of e's document, reported to handleChange.
ChangeStep(e) ==
    \E p \in Carets(e) : \E edit \in Edits(doc[e], p) :
      handleChange([Ctl EXCEPT !.doc[e] = edit.doc], e, edit.pos)

\* One caret move of e, reported to handleSelectionChange.
SelectionStep(e) ==
    \E pos \in 0..Len(doc[e]) :
      Commit(handleSelectionChange(Ctl, e, pos), "handleSelectionChange", e, pos)

\* The document of e changes by one edit and the host reports it.
HandleChange(e) ==
    /\ steps < CallBound
    /\ ChangeStep(e)

\* The caret of e moves.
HandleSelectionChange(e) ==
    /\ steps < CallBound
    /\ SelectionStep(e)

\* The host asks whether an abbreviation is being typed at pos.
TypingAbbreviation(e) ==
    /\ steps < CallBound
    /\ \E pos \in 0..Len(doc[e]) : typingAbbreviation(Ctl, e, pos, "typingAbbreviation")

\* The host starts tracking a range (e.g. a command entering an
\* abbreviation), optionally forced and with a prefix offset.
StartTracking(e) ==
    /\ steps < CallBound
    /\ \E start \in 0..Len(doc[e]), pos \in Carets(e),
          offset \in 0..1, forced \in BOOLEAN, config \in UserConfigs :
      \E expander \in ExpanderAnswers(config) :
        Commit(startTracking(Ctl, e, start, pos,
                             [offset |-> offset, config |-> config, forced |-> forced],
                             expander),
               "startTracking", e, pos)

\* The host stops tracking.
StopTracking(e) ==
    /\ steps < CallBound
    /\ \E skipRemove \in BOOLEAN, force \in BOOLEAN :
      Commit(Result(stopTracking(Ctl, e, skipRemove, force), None,
                    IF force THEN "force" ELSE "store"),
             "stopTracking", e, 0)

\* The host asks to restore the cached tracker at pos.
RestoreTracker(e) ==
    /\ steps < CallBound
    /\ \E pos \in 0..Len(doc[e]) :
      Commit(restoreTracker(Ctl, e, pos), "restoreTracker", e, pos)

\* The host disposes the editor's data.
DisposeEditor(e) ==
    /\ steps < CallBound
    /\ Commit(Result(disposeEditor(Ctl, e), None, "dispose"), "disposeEditor", e, 0)

Next ==
    \/ \E e \in open : HandleChange(e)
    \/ \E e \in open : HandleSelectionChange(e)
    \/ \E e \in open : TypingAbbreviation(e)
    \/ \E e \in open : StartTracking(e)
    \/ \E e \in open : StopTracking(e)
    \/ \E e \in open : RestoreTracker(e)
    \/ \E e \in open : DisposeEditor(e)

Spec == Init /\ [][Next]_vars

\* Two editors share the controller.
SpecMulti == InitMulti /\ [][Next]_vars

\* ------------------------------------------------- a typing session
\* The host only reports keystrokes and caret moves of the open editor.
TypingChange(e) ==
    /\ steps < MaxKeys
    /\ ChangeStep(e)

TypingSelection(e) ==
    /\ steps < MaxKeys
    /\ SelectionStep(e)

NextTyping ==
    \/ \E e \in open : TypingChange(e)
    \/ \E e \in open : TypingSelection(e)

SpecTyping == Init /\ [][NextTyping]_vars

TypeOK ==
    /\ open \subseteq Editors
    /\ \A e \in Editors : Len(doc[e]) <= MaxLen

\* ------------------------------------------- createTracker on its own
\* Every document of at most n characters.
Docs(n) == UNION { [1..k -> Chars] : k \in 0..n }

Expanders == {"snippet", "fallback", "throws"}

InitCreate ==
    /\ open = {"e1"}
    /\ steps = 0
    /\ \E d \in Docs(MaxLen) : doc = [e \in Editors |-> IF e = "e1" THEN d ELSE <<>>]
    /\ trackers = [e \in Editors |-> None]
    /\ cache = [e \in Editors |-> None]
    /\ lastPos = [e \in Editors |-> NoPos]
    /\ call = [op |-> "init", ed |-> "e1", path |-> "init",
               mark |-> 0, unmark |-> 0, replace |-> 0]

\* createTracker(editor, range, params) is applied once to the document;
\* its arguments are kept in `call`, its result in trackers[e].
CreateTracker(e) ==
    /\ steps = 0
    /\ \E r0 \in (-1)..(MaxLen + 1), r1 \in (-1)..(MaxLen + 1), offset \in 0..1,
          forced \in BOOLEAN, config \in UserConfigs, expander \in Expanders :
         /\ trackers' = [trackers EXCEPT ![e] =
                createTracker(doc[e], <<r0, r1>>,
                              [offset |-> offset, config |-> config, forced |-> forced],
                              expander)]
         /\ call' = [op |-> "createTracker", ed |-> e, path |-> "createTracker",
                     mark |-> 0, unmark |-> 0, replace |-> 0,
                     range |-> <<r0, r1>>, offset |-> offset, forced |-> forced,
                     config |-> config, expander |-> expander]
    /\ steps' = 1
    /\ UNCHANGED <<open, doc, cache, lastPos>>

NextCreate == \E e \in open : CreateTracker(e)

SpecCreate == InitCreate /\ [][NextCreate]_vars

\* ---------------------------------------------- handleChange on its own
\* A tracker is active in the document: it was created for some range of
\* it, forced or not, and the caret has since moved anywhere.
InitChange ==
    /\ open = {"e1"}
    /\ steps = 0
    /\ cache = [e \in Editors |-> None]
    /\ call = [op |-> "init", ed |-> "e1", path |-> "init",
               mark |-> 0, unmark |-> 0, replace |-> 0]
    /\ \E d \in Docs(MaxLenTracked), r0 \in 0..MaxLenTracked, r1 \in 0..MaxLenTracked,
          lp \in 0..MaxLenTracked, offset \in 0..1, forced \in BOOLEAN,
          config \in UserConfigs :
         \E expander \in ExpanderAnswers(config) :
           LET tracker == createTracker(d, <<r0, r1>>,
                            [offset |-> offset, config |-> config, forced |-> forced],
                            expander)
           IN  /\ r1 <= Len(d) /\ lp <= Len(d)
               /\ tracker # None
               /\ doc = [e \in Editors |-> IF e = "e1" THEN d ELSE <<>>]
               /\ trackers = [e \in Editors |->
                                IF e = "e1" THEN [tracker EXCEPT !.lastPos = lp]
                                ELSE None]
               /\ lastPos = [e \in Editors |-> IF e = "e1" THEN lp ELSE NoPos]

\* One edit at the caret, reported to handleChange.
ChangeOnce(e) ==
    /\ steps = 0
    /\ ChangeStep(e)

NextChange == \E e \in open : ChangeOnce(e)

SpecChange == InitChange /\ [][NextChange]_vars

\* ===================================================================
\* Context resolvers, tag locators and select-unit functions
\* ===================================================================
\* The markup and stylesheet scanners are external: the functions below
\* are computed over the token stream a scanner reports, laid out from a
\* document written as a sequence of pieces of source text.

\* ------------------------------------------------------ range utilities
\* isSpace(code): " " stands for the white-space characters.
isSpace(ch) == ch \in {" ", "\n"}

\* isQuote(ch)
isQuote(ch) == ch \in {"\"", "'"}

\* last(arr), `undefined` for an empty array.
last(arr) == IF arr = <<>> THEN None ELSE arr[Len(arr)]

\* Variant of pushRange that does not compare with the range before.
pushRange_AllowRepeat(ranges, range) ==
    IF range[1] # range[2] THEN Append(ranges, range) ELSE ranges

\* pushRange(ranges, range)
pushRange(ranges, range) ==
    IF range[1] # range[2] /\ (ranges = <<>> \/ last(ranges) # range)
    THEN Append(ranges, range)
    ELSE ranges

\* tokenList(value, offset): the loop over the characters of value from
\* index pos, with the start of the pending token.
RECURSIVE tokenListFrom(_, _, _, _)
tokenListFrom(value, offset, pos, start) ==
    IF pos >= Len(value)
    THEN IF start # pos THEN << <<offset + start, offset + pos>> >> ELSE <<>>
    ELSE IF isSpace(value[pos + 1])
         THEN LET next == CHOOSE n \in (pos + 1)..Len(value) :
                            /\ \A k \in (pos + 1)..(n - 1) : isSpace(value[k + 1])
                            /\ (n < Len(value) => ~isSpace(value[n + 1]))
              IN  (IF start # pos THEN << <<offset + start, offset + pos>> >> ELSE <<>>)
                  \o tokenListFrom(value, offset, next, next)
         ELSE tokenListFrom(value, offset, pos + 1, start)

tokenList(value, offset) == tokenListFrom(value, offset, 0, 0)

\* ------------------------------------------------------ stylesheet source
\* One piece of stylesheet source and the token the scanner reports for
\* it: `pre` characters, the token of `len` characters, the rest. `delim`
\* is the offset of the delimiter in the piece, -1 when there is none;
\* `frags` are the fragments splitValue reports for a value.
CssPiece(type, text, pre, len, delim, frags) ==
    [type |-> type, text |-> text, pre |-> pre, len |-> len,
     delim |-> delim, frags |-> frags]

\* The pieces of stylesheet source: a selector with its brace, a block
\* without selector text (the token is empty, after the brace), a property
\* name with its colon, values with one and two fragments, a value that
\* ends with the source (no delimiter), the empty value of `b:;`, the
\* end of a block and white space.
CssPieces ==
    { CssPiece("selector", <<"a", "{">>, 0, 1, 1, <<>>),
      CssPiece("selector", <<"{">>, 1, 0, 0, <<>>),
      CssPiece("propertyName", <<"b", ":">>, 0, 1, 1, <<>>),
      CssPiece("propertyValue", <<"c", ";">>, 0, 1, 1, << <<0, 1>> >>),
      CssPiece("propertyValue", <<"c", " ", "d", ";">>, 0, 3, 3,
               << <<0, 1>>, <<2, 3>> >>),
      CssPiece("propertyValue", <<"c">>, 0, 1, -1, << <<0, 1>> >>),
      CssPiece("propertyValue", <<";">>, 0, 0, 0, <<>>),
      CssPiece("blockEnd", <<"}">>, 0, 1, 0, <<>>),
      CssPiece("space", <<" ">>, 1, 0, -1, <<>>) }

\* Text of a sequence of pieces.
RECURSIVE SourceText(_)
SourceText(ps) == IF ps = <<>> THEN <<>> ELSE ps[1].text \o SourceText(Tail(ps))

\* scan(code, callback) of the stylesheet scanner: the tokens
\* (type, start, end, delimiter) of the pieces laid out from offset `at`.
RECURSIVE CssTokens(_, _)
CssTokens(ps, at) ==
    IF ps = <<>> THEN <<>>
    ELSE LET p == ps[1]
             rest == CssTokens(Tail(ps), at + Len(p.text))
         IN  IF p.type = "space" THEN rest
             ELSE << [type |-> p.type,
                      start |-> at + p.pre,
                      end |-> at + p.pre + p.len,
                      delimiter |-> IF p.delim = -1 THEN -1 ELSE at + p.delim,
                      name |-> SubSeq(p.text, p.pre + 1, p.pre + p.len),
                      frags |-> p.frags] >> \o rest

\* ---------------------------------------------------------- markup source
StyleName == <<"s", "t", "y", "l", "e">>
ClassName == <<"c", "l", "a", "s", "s">>

\* An attribute as attributes(tag, name) reports it, offsets from the
\* start of the tag; `css` is the stylesheet source of a style value.
Attr(name, nameStart, hasValue, value, css) ==
    [name |-> name, nameStart |-> nameStart, nameEnd |-> nameStart + Len(name),
     hasValue |-> hasValue, value |-> value,
     valueStart |-> nameStart + Len(name) + 1,
     valueEnd |-> nameStart + Len(name) + 1 + Len(value),
     css |-> css]

\* A tag of the markup source: the token (name, type) and its attributes.
Tag(name, type, len, attrs) ==
    [kind |-> "tag", name |-> name, type |-> type, len |-> len,
     attrs |-> attrs, css |-> <<>>]

\* Text between tags: stylesheet source when inside a style element.
TextPiece(css) ==
    [kind |-> "text", name |-> <<>>, type |-> "Text", len |-> Len(SourceText(css)),
     attrs |-> <<>>, css |-> css]

\* Pieces of the documents given to the context resolver and the tag
\* locators: <a>, </a>, <br> (an empty element of HTML, reported as
\* Open), <b/>, <style>, </style>, <a style="b:c;"> and the text a{b:c;}.
ContextPieces ==
    { Tag(<<"a">>, "Open", 3, <<>>),
      Tag(<<"a">>, "Close", 4, <<>>),
      Tag(<<"b", "r">>, "Open", 4, <<>>),
      Tag(<<"b">>, "SelfClose", 4, <<>>),
      Tag(StyleName, "Open", 7, <<>>),
      Tag(StyleName, "Close", 8, <<>>),
      Tag(<<"a">>, "Open", 16,
          << Attr(StyleName, 3, TRUE, <<"\"", "b", ":", "c", ";", "\"">>,
                  << CssPiece("propertyName", <<"b", ":">>, 0, 1, 1, <<>>),
                     CssPiece("propertyValue", <<"c", ";">>, 0, 1, 1,
                              << <<0, 1>> >>) >>) >>),
      TextPiece(<< CssPiece("selector", <<"a", "{">>, 0, 1, 1, <<>>),
                   CssPiece("propertyName", <<"b", ":">>, 0, 1, 1, <<>>),
                   CssPiece("propertyValue", <<"c", ";">>, 0, 1, 1, << <<0, 1>> >>),
                   CssPiece("blockEnd", <<"}">>, 0, 1, 0, <<>>) >>) }

\* Pieces of the documents given to the select-unit functions: a space,
\* </a>, <b class="x y">, <b class="x"> and <b d e={z} f="" g=h/>.
SelectPieces ==
    { TextPiece(<< CssPiece("space", <<" ">>, 1, 0, -1, <<>>) >>),
      Tag(<<"a">>, "Close", 4, <<>>),
      Tag(<<"b">>, "Open", 15,
          << Attr(ClassName, 3, TRUE, <<"\"", "x", " ", "y", "\"">>, <<>>) >>),
      Tag(<<"b">>, "Open", 13,
          << Attr(ClassName, 3, TRUE, <<"\"", "x", "\"">>, <<>>) >>),
      Tag(<<"b">>, "SelfClose", 21,
          << Attr(<<"d">>, 3, FALSE, <<>>, <<>>),
             Attr(<<"e">>, 5, TRUE, <<"{", "z", "}">>, <<>>),
             Attr(<<"f">>, 11, TRUE, <<"\"", "\"">>, <<>>),
             Attr(<<"g">>, 16, TRUE, <<"h">>, <<>>) >>) }

\* Length of the text of a markup document.
RECURSIVE MarkupLen(_)
MarkupLen(ps) == IF ps = <<>> THEN 0 ELSE ps[1].len + MarkupLen(Tail(ps))

\* scan(code, callback, options) of the markup scanner: the tokens
\* (name, type, start, end) of the tags laid out from offset `at`.
RECURSIVE HtmlTokens(_, _)
HtmlTokens(ps, at) ==
    IF ps = <<>> THEN <<>>
    ELSE LET p == ps[1]
             rest == HtmlTokens(Tail(ps), at + p.len)
         IN  IF p.kind = "text" THEN rest
             ELSE << [name |-> p.name, type |-> p.type, start |-> at,
                      end |-> at + p.len, attrs |-> p.attrs] >> \o rest

\* Stylesheet source of the text pieces of a markup document.
RECURSIVE TextCss(_)
TextCss(ps) ==
    IF ps = <<>> THEN <<>>
    ELSE (IF ps[1].kind = "text" THEN ps[1].css ELSE <<>>) \o TextCss(Tail(ps))

\* The scanner reports no tag inside a style element: only text follows
\* <style> up to its </style>.
RECURSIVE RawStyleContent(_, _)
RawStyleContent(ps, inStyle) ==
    IF ps = <<>> THEN TRUE
    ELSE LET p == ps[1]
         IN  IF inStyle
             THEN /\ (p.kind = "text" \/ (p.type = "Close" /\ p.name = StyleName))
                  /\ RawStyleContent(Tail(ps), p.kind = "text")
             ELSE RawStyleContent(Tail(ps), p.type = "Open" /\ p.name = StyleName)

\* Every sequence of at most n elements of S.
SeqsUpTo(S, n) == UNION { [1..k -> S] : k \in 0..n }

\* ------------------------------------------------------ context resolver
\* The records of a scan live in `heap`; the stack and the pool hold
\* references to them, so that a record reused while still referenced
\* would show in the result.
ScanState == [heap |-> <<>>, stack |-> <<>>, pool |-> <<>>, current |-> None]

\* Variant of allocItem that, with an empty pool, reuses the record
\* allocated last.
allocItem_ReuseLast(heap, pool, item) ==
    IF pool # <<>>
    THEN [heap |-> [heap EXCEPT ![last(pool)] = item],
          pool |-> SubSeq(pool, 1, Len(pool) - 1), ref |-> last(pool)]
    ELSE IF heap # <<>>
    THEN [heap |-> [heap EXCEPT ![Len(heap)] = item], pool |-> pool, ref |-> Len(heap)]
    ELSE [heap |-> Append(heap, item), pool |-> pool, ref |-> Len(heap) + 1]

\* allocItem(pool, name, type, start, end): the record taken from the
\* pool is overwritten, a new one is made when the pool is empty.
allocItem(heap, pool, item) ==
    IF pool # <<>>
    THEN [heap |-> [heap EXCEPT ![last(pool)] = item],
          pool |-> SubSeq(pool, 1, Len(pool) - 1), ref |-> last(pool)]
    ELSE [heap |-> Append(heap, item), pool |-> pool, ref |-> Len(heap) + 1]

\* releaseItem(pool, item)
releaseItem(pool, ref) == Append(pool, ref)

\* Variant of PushItem that puts the record at the bottom of the stack.
PushItem_Front(st, item, pooling) ==
    LET a == IF pooling THEN allocItem(st.heap, st.pool, item)
             ELSE [heap |-> Append(st.heap, item), pool |-> st.pool,
                   ref |-> Len(st.heap) + 1]
    IN  [st EXCEPT !.heap = a.heap, !.pool = a.pool, !.stack = <<a.ref>> \o st.stack]

\* Pushes a record for item on the stack: from the pool as the code does,
\* or newly made when `pooling` is off.
PushItem(st, item, pooling) ==
    LET a == IF pooling THEN allocItem(st.heap, st.pool, item)
             ELSE [heap |-> Append(st.heap, item), pool |-> st.pool,
                   ref |-> Len(st.heap) + 1]
    IN  [st EXCEPT !.heap = a.heap, !.pool = a.pool, !.stack = Append(st.stack, a.ref)]

\* stack.pop(): the stack without its last entry.
PopItem(stack) == SubSeq(stack, 1, Len(stack) - 1)

\* options.empty of the markup scanner: the empty elements of HTML.
EmptyElements == { <<"b", "r">> }

\* isSelfClose(name, options)
isSelfClose(name, xml) == ~xml /\ name \in EmptyElements

\* Variant of ClosesTop that lets any close tag close the innermost open
\* element.
ClosesTop_AnyName(st, name) == st.stack # <<>>

\* getHTMLContext, line 104: the close tag `name` closes the element on
\* top of the stack.
ClosesTop(st, name) == st.stack # <<>> /\ st.heap[last(st.stack)].name = name

\* The callback of getHTMLContext applied to the tokens from index i on.
RECURSIVE htmlContextScan(_, _, _, _, _, _)
htmlContextScan(tokens, i, pos, xml, pooling, st) ==
    IF i > Len(tokens) THEN st
    ELSE
      LET t == tokens[i] IN
      IF t.start >= pos THEN st
      ELSE IF t.start < pos /\ pos < t.end
      THEN [st EXCEPT !.current =
              [name |-> t.name, type |-> t.type, range |-> <<t.start, t.end>>]]
      ELSE
        LET type == IF t.type = "Open" /\ isSelfClose(t.name, xml)
                    THEN "SelfClose" ELSE t.type
            item == [name |-> t.name, type |-> type, start |-> t.start, end |-> t.end]
        IN  IF type = "Open"
            THEN htmlContextScan(tokens, i + 1, pos, xml, pooling,
                                 PushItem(st, item, pooling))
            ELSE IF type = "Close" /\ ClosesTop(st, t.name)
            THEN htmlContextScan(tokens, i + 1, pos, xml, pooling,
                   [st EXCEPT !.stack = PopItem(st.stack),
                              !.pool = releaseItem(st.pool, last(st.stack))])
            ELSE htmlContextScan(tokens, i + 1, pos, xml, pooling, st)

\* Variant of IsCurrentCss that leaves out a token that ends at pos.
IsCurrentCss_BeforeEnd(t, pos) == t.start < pos /\ pos < t.end

\* getCSSContext, line 147: the token is a direct hit at pos.
IsCurrentCss(t, pos) == t.start < pos /\ pos <= t.end

\* The callback of getCSSContext applied to the tokens from index i on.
RECURSIVE cssContextScan(_, _, _, _, _)
cssContextScan(tokens, i, pos, pooling, st) ==
    IF i > Len(tokens) THEN st
    ELSE
      LET t == tokens[i] IN
      IF t.start >= pos THEN st
      ELSE IF IsCurrentCss(t, pos)
      THEN [st EXCEPT !.current =
              [name |-> t.name, type |-> t.type, range |-> <<t.start, t.end>>]]
      ELSE IF t.type \in {"selector", "propertyName"}
      THEN cssContextScan(tokens, i + 1, pos, pooling,
             PushItem(st, [name |-> t.name, type |-> t.type,
                           start |-> t.start, end |-> t.end], pooling))
      ELSE IF t.type \in {"propertyValue", "blockEnd"}
      THEN cssContextScan(tokens, i + 1, pos, pooling,
                          [st EXCEPT !.stack = PopItem(st.stack)])
      ELSE cssContextScan(tokens, i + 1, pos, pooling, st)

\* getCSSContext(code, pos, embedded), with or without record pooling;
\* code is stylesheet source, embedded a range or None.
cssContextWith(code, pos, embedded, pooling) ==
    LET st == cssContextScan(CssTokens(code, 0), 1, pos, pooling, ScanState)
    IN  [type |-> "css",
         ancestors |-> [k \in 1..Len(st.stack) |->
                          LET item == st.heap[st.stack[k]]
                          IN  [name |-> item.name, type |-> item.type,
                               range |-> <<item.start, item.end>>]],
         current |-> st.current,
         inline |-> FALSE,
         embedded |-> embedded]

getCSSContext(code, pos, embedded) == cssContextWith(code, pos, embedded, TRUE)

\* Variant of offsetRange that moves only the start of the range.
offsetRange_StartOnly(range, offset) == <<range[1] + offset, range[2]>>

\* offsetRange(range, offset)
offsetRange(range, offset) == <<range[1] + offset, range[2] + offset>>

\* applyOffset(ctx, offset)
applyOffset(ctx, offset) ==
    [ctx EXCEPT
       !.ancestors = [k \in 1..Len(ctx.ancestors) |->
                        [ctx.ancestors[k] EXCEPT !.range = offsetRange(@, offset)]],
       !.current = IF ctx.current # None
                   THEN [ctx.current EXCEPT !.range = offsetRange(@, offset)]
                   ELSE None]

\* attributeValueRange(tag, attr, offset): tag[valueStart] and
\* tag[valueEnd - 1] are the first and last character of the value.
attributeValueRange(attr, offset) ==
    LET valueStart == IF attr.value # <<>> /\ isQuote(attr.value[1])
                      THEN attr.valueStart + 1 ELSE attr.valueStart
        valueEnd == IF /\ attr.value # <<>> /\ isQuote(last(attr.value))
                       /\ attr.valueEnd > valueStart
                    THEN attr.valueEnd - 1 ELSE attr.valueEnd
    IN  <<offset + valueStart, offset + valueEnd>>

\* attributes(tag, name) for the tag of tokens that starts at `start`.
attributes(tokens, start) ==
    LET found == { k \in 1..Len(tokens) : tokens[k].start = start }
    IN  IF found = {} THEN <<>> ELSE tokens[CHOOSE k \in found : TRUE].attrs

\* The pieces of a markup document from offset `from` on, when a piece
\* starts there.
RECURSIVE PiecesFrom(_, _)
PiecesFrom(ps, from) ==
    IF ps = <<>> \/ from <= 0 THEN ps ELSE PiecesFrom(Tail(ps), from - ps[1].len)

\* The pieces of a markup document that end at or before offset `to`.
RECURSIVE PiecesUpTo(_, _)
PiecesUpTo(ps, to) ==
    IF ps = <<>> \/ ps[1].len > to THEN <<>>
    ELSE <<ps[1]>> \o PiecesUpTo(Tail(ps), to - ps[1].len)

\* detectCSSContextFromHTML(code, pos, ctx)
detectCSSContextFromHTML(code, pos, ctx, pooling) ==
    IF ctx.current # None
    THEN
      LET elem == ctx.current
          attrs == attributes(HtmlTokens(code, 0), elem.range[1])
          hits == { k \in 1..Len(attrs) :
                      /\ attrs[k].name = StyleName /\ attrs[k].hasValue
                      /\ LET r == attributeValueRange(attrs[k], elem.range[1])
                         IN  pos >= r[1] /\ pos <= r[2] }
      IN  IF elem.type \in {"Open", "Close"} /\ hits # {}
          THEN LET attr == attrs[CHOOSE k \in hits : \A j \in hits : k <= j]
                   r == attributeValueRange(attr, elem.range[1])
                   cssCtx == cssContextWith(attr.css, pos - r[1], r, pooling)
               IN  [applyOffset(cssCtx, r[1]) EXCEPT !.inline = TRUE]
          ELSE None
    ELSE IF ctx.ancestors # <<>> /\ last(ctx.ancestors).name = StyleName
    THEN
      LET parent == last(ctx.ancestors)
          styleStart == parent.range[2]
          rest == PiecesFrom(code, styleStart)
          inner == HtmlTokens(rest, 0)
          closes == { k \in 1..Len(inner) :
                        inner[k].name = parent.name /\ inner[k].type = "Close" }
          styleEnd == IF closes = {} THEN MarkupLen(code)
                      ELSE inner[CHOOSE k \in closes : \A j \in closes : k <= j].start
                           + styleStart
          source == TextCss(PiecesUpTo(rest, styleEnd - styleStart))
          cssCtx == cssContextWith(source, pos - styleStart,
                                   <<styleStart, styleEnd>>, pooling)
      IN  applyOffset(cssCtx, styleStart)
    ELSE None

\* getHTMLContext(code, pos, opt), with or without record pooling.
htmlContextWith(code, pos, opt, pooling) ==
    LET st == htmlContextScan(HtmlTokens(code, 0), 1, pos, opt.xml, pooling, ScanState)
        result == [type |-> "html",
                   ancestors |-> [k \in 1..Len(st.stack) |->
                                    LET item == st.heap[st.stack[k]]
                                    IN  [name |-> item.name,
                                         range |-> <<item.start, item.end>>]],
                   current |-> st.current,
                   css |-> None]
    IN  IF opt.skipCSS THEN result
        ELSE [result EXCEPT !.css = detectCSSContextFromHTML(code, pos, result, pooling)]

getHTMLContext(code, pos, opt) == htmlContextWith(code, pos, opt, TRUE)

\* --------------------------------------------------------- tag locators
\* Variant of shiftAttributeRanges that leaves the ranges relative to the tag.
shiftAttributeRanges_NoOffset(attrs, offset) == attrs

\* shiftAttributeRanges(attrs, offset)
shiftAttributeRanges(attrs, offset) ==
    [k \in 1..Len(attrs) |->
       [attrs[k] EXCEPT !.nameStart = @ + offset, !.nameEnd = @ + offset,
                        !.valueStart = @ + offset, !.valueEnd = @ + offset]]

\* Variant of UnderPos that accepts a position at the start of the tag.
UnderPos_FromStart(t, pos) == t.start <= pos /\ t.end > pos

\* start < pos && end > pos
UnderPos(t, pos) == t.start < pos /\ t.end > pos

\* getOpenTag(code, pos): the callback returns false at the first token
\* with end > pos, with or without a tag; the tag has an `attributes`
\* field only when it is open or self-closing.
getOpenTag(code, pos) ==
    LET tokens == HtmlTokens(code, 0)
        stops == { k \in 1..Len(tokens) : tokens[k].end > pos }
    IN  IF stops = {} THEN None
        ELSE LET t == tokens[CHOOSE k \in stops : \A j \in stops : k <= j]
             IN  IF UnderPos(t, pos)
                 THEN IF t.type \in {"Open", "SelfClose"}
                      THEN [name |-> t.name, type |-> t.type, start |-> t.start,
                            end |-> t.end,
                            attributes |-> shiftAttributeRanges(t.attrs, t.start)]
                      ELSE [name |-> t.name, type |-> t.type, start |-> t.start,
                            end |-> t.end]
                 ELSE None

\* Variant of ClosedEntry that closes the outermost open entry of the name.
ClosedEntry_Outermost(stack, result, name) ==
    LET same == { k \in 1..Len(stack) : result[stack[k]].name = name }
    IN  IF same = {} THEN 0 ELSE CHOOSE x \in same : \A y \in same : x <= y

\* getTagMatches, lines 62-68: the position in the stack of the entry a
\* close tag `name` closes, the innermost one of that name; 0 when the
\* stack holds none, and all of it is popped.
ClosedEntry(stack, result, name) ==
    LET same == { k \in 1..Len(stack) : result[stack[k]].name = name }
    IN  IF same = {} THEN 0 ELSE CHOOSE x \in same : \A y \in same : y <= x

\* getTagMatches(code, options): the callback applied to the tokens from
\* index i on; the stack refers to matches of the result by index.
RECURSIVE getTagMatchesFrom(_, _, _, _)
getTagMatchesFrom(tokens, i, stack, result) ==
    IF i > Len(tokens) THEN result
    ELSE
      LET t == tokens[i]
          item == [name |-> t.name, open |-> <<t.start, t.end>>, close |-> None]
      IN  IF t.type = "SelfClose"
          THEN getTagMatchesFrom(tokens, i + 1, stack, Append(result, item))
          ELSE IF t.type = "Open"
          THEN getTagMatchesFrom(tokens, i + 1, Append(stack, Len(result) + 1),
                                 Append(result, item))
          ELSE
            LET k == ClosedEntry(stack, result, t.name)
            IN  IF k = 0
                THEN getTagMatchesFrom(tokens, i + 1, <<>>, result)
                ELSE getTagMatchesFrom(tokens, i + 1, SubSeq(stack, 1, k - 1),
                       [result EXCEPT ![stack[k]].close = <<t.start, t.end>>])

getTagMatches(code) == getTagMatchesFrom(HtmlTokens(code, 0), 1, <<>>, <<>>)

\* Variant of MatchEnd that ignores the close tag.
MatchEnd_OpenOnly(match) == match.open[2]

\* End of the extent of a match: match.close ? match.close[1] : match.open[1]
MatchEnd(match) == IF match.close # None THEN match.close[2] ELSE match.open[2]

\* findTagMatch(source, pos): source.some(...) from index i on.
RECURSIVE findTagMatchFrom(_, _, _, _)
findTagMatchFrom(source, i, pos, candidate) ==
    IF i > Len(source) THEN candidate
    ELSE LET match == source[i]
             start == match.open[1]
             end == MatchEnd(match)
         IN  IF pos < start THEN candidate
             ELSE findTagMatchFrom(source, i + 1, pos,
                    IF pos > start /\ pos < end THEN match ELSE candidate)

findTagMatch(code, pos) == findTagMatchFrom(getTagMatches(code), 1, pos, None)

\* ------------------------------------------------------ markup select unit
\* Variant of valueRange that keeps the quotes or braces.
valueRange_Quoted(attr) == <<attr.valueStart, attr.valueEnd>>

\* valueRange(attr)
valueRange(attr) ==
    LET ch == attr.value[1]
        lastCh == last(attr.value)
    IN  IF isQuote(ch)
        THEN <<attr.valueStart + 1, attr.valueEnd - (IF lastCh = ch THEN 1 ELSE 0)>>
        ELSE IF ch = "{" /\ lastCh = "}"
        THEN <<attr.valueStart + 1, attr.valueEnd - 1>>
        ELSE <<attr.valueStart, attr.valueEnd>>

\* pushRange applied to each range of a list in turn.
RECURSIVE pushRanges(_, _)
pushRanges(ranges, list) ==
    IF list = <<>> THEN ranges
    ELSE pushRanges(pushRange(ranges, list[1]), Tail(list))

\* The ranges one attribute adds in getTagSelectionModel.
AttributeRanges(ranges, attr, start) ==
    IF attr.hasValue
    THEN LET full == pushRange(ranges, <<start + attr.nameStart, start + attr.valueEnd>>)
             val == IF attr.value = <<>> THEN <<attr.valueStart, attr.valueEnd>>
                    ELSE valueRange(attr)
         IN  IF val[1] # val[2]
             THEN LET unquoted == pushRange(full, <<start + val[1], start + val[2]>>)
                  IN  IF attr.name = ClassName
                      THEN pushRanges(unquoted,
                             tokenList(SubSeq(attr.value,
                                              val[1] - attr.valueStart + 1,
                                              val[2] - attr.valueStart),
                                       start + val[1]))
                      ELSE unquoted
             ELSE full
    ELSE pushRange(ranges, <<start + attr.nameStart, start + attr.nameEnd>>)

\* getTagSelectionModel(code, name, start, end) for the tag token t.
RECURSIVE TagRangesFrom(_, _, _, _)
TagRangesFrom(ranges, attrs, k, start) ==
    IF k > Len(attrs) THEN ranges
    ELSE TagRangesFrom(AttributeRanges(ranges, attrs[k], start), attrs, k + 1, start)

getTagSelectionModel(t) ==
    [start |-> t.start, end |-> t.end,
     ranges |-> TagRangesFrom(<< <<t.start + 1, t.start + 1 + Len(t.name)>> >>,
                              t.attrs, 1, t.start)]

\* selectNextItem(code, pos) of html.ts
selectNextItemHTML(code, pos) ==
    LET tokens == HtmlTokens(code, 0)
        found == { k \in 1..Len(tokens) :
                     tokens[k].type \in {"Open", "SelfClose"} /\ tokens[k].end > pos }
    IN  IF found = {} THEN None
        ELSE getTagSelectionModel(tokens[CHOOSE k \in found : \A j \in found : k <= j])

\* selectPreviousItem(code, pos) of html.ts: the scan stops at the first
\* token with start >= pos.
selectPreviousItemHTML(code, pos) ==
    LET tokens == HtmlTokens(code, 0)
        seen == { k \in 1..Len(tokens) : \A j \in 1..k : tokens[j].start < pos }
        found == { k \in seen : tokens[k].type \in {"Open", "SelfClose"} }
    IN  IF found = {} THEN None
        ELSE getTagSelectionModel(tokens[CHOOSE k \in found : \A j \in found : j <= k])

\* selectItemHTML(code, pos, isPrev)
selectItemHTML(code, pos, isPrev) ==
    IF isPrev THEN selectPreviousItemHTML(code, pos) ELSE selectNextItemHTML(code, pos)

\* ------------------------------------------------------ section locator
\* Variant of SectionContains that checks only the start of the section.
SectionContains_StartOnly(sel, pos, end) == sel[1] <= pos

\* Variant of SectionContains that leaves out a position at the end of the
\* block.
SectionContains_BeforeEnd(sel, pos, end) == sel[1] <= pos /\ pos < end

\* sel[0] <= pos && pos <= end
SectionContains(sel, pos, end) == sel[1] <= pos /\ pos <= end

\* The callback of getCSSSection applied to the tokens from index i on.
\* The stack holds references to pooled [start, end, delimiter] records:
\* allocRange and releaseRange work as allocItem and releaseItem do.
RECURSIVE cssSectionScan(_, _, _, _)
cssSectionScan(tokens, i, pos, st) ==
    IF i > Len(tokens) THEN None
    ELSE
      LET t == tokens[i] IN
      IF t.start > pos /\ st.stack = <<>> THEN None
      ELSE IF t.type = "selector"
      THEN cssSectionScan(tokens, i + 1, pos,
             PushItem(st, <<t.start, t.end, t.delimiter>>, TRUE))
      ELSE IF t.type = "blockEnd"
      THEN IF st.stack = <<>>
           THEN cssSectionScan(tokens, i + 1, pos, st)
           ELSE LET sel == st.heap[last(st.stack)]
                IN  IF SectionContains(sel, pos, t.end)
                    THEN [start |-> sel[1], end |-> t.end,
                          bodyStart |-> sel[3] + 1, bodyEnd |-> t.start]
                    ELSE cssSectionScan(tokens, i + 1, pos,
                           [st EXCEPT !.stack = PopItem(st.stack),
                                      !.pool = releaseItem(st.pool, last(st.stack))])
      ELSE cssSectionScan(tokens, i + 1, pos, st)

\* getCSSSection(code, pos), without the properties.
getCSSSection(code, pos) == cssSectionScan(CssTokens(code, 0), 1, pos, ScanState)

\* ------------------------------------------------ properties of a section
\* code.substring(from, to) for a range of whole pieces: the pieces laid
\* out within [from, to). The scanner is taken to report for the
\* fragment the tokens it reports for these pieces.
RECURSIVE BodyPieces(_, _, _)
BodyPieces(ps, from, to) ==
    IF ps = <<>> THEN <<>>
    ELSE LET n == Len(ps[1].text)
         IN  IF from > 0 THEN BodyPieces(Tail(ps), from - n, to - n)
             ELSE IF n <= to THEN <<ps[1]>> \o BodyPieces(Tail(ps), 0, to - n)
             ELSE <<>>

\* Variant of createProperty that leaves the value range relative to the
\* fragment.
createProperty_ValueInFragment(name, before, start, end, delimiter, frags, offset) ==
    [name |-> <<offset + name[1], offset + name[2]>>,
     value |-> <<start, end>>,
     valueTokens |-> [k \in 1..Len(frags) |->
                        <<frags[k][1] + offset + start, frags[k][2] + offset + start>>],
     before |-> before,
     after |-> offset + delimiter + 1]

\* createProperty(code, name, before, start, end, delimiter, offset);
\* frags are the fragments splitValue reports for code.substring(start, end).
createProperty(name, before, start, end, delimiter, frags, offset) ==
    [name |-> <<offset + name[1], offset + name[2]>>,
     value |-> <<offset + start, offset + end>>,
     valueTokens |-> [k \in 1..Len(frags) |->
                        <<frags[k][1] + offset + start, frags[k][2] + offset + start>>],
     before |-> before,
     after |-> offset + delimiter + 1]

\* The callback of parseProperties applied to the tokens of the fragment
\* from index i on. pendingName is [start, end, delimiter] or <<>>; its
\* record comes from a pool, and createProperty copies what it reads
\* of it before the record is released.
RECURSIVE parsePropertiesScan(_, _, _, _, _, _, _)
parsePropertiesScan(tokens, i, from, pendingName, nested, before, result) ==
    IF i > Len(tokens) THEN result
    ELSE
      LET t == tokens[i] IN
      IF t.type = "selector"
      THEN parsePropertiesScan(tokens, i + 1, from, pendingName, nested + 1,
                               before, result)
      ELSE IF t.type = "blockEnd"
      THEN parsePropertiesScan(tokens, i + 1, from, pendingName, nested - 1,
                               from + t.end, result)
      ELSE IF nested = 0 /\ t.type = "propertyName"
      THEN IF pendingName # <<>>
           THEN LET valuePos == pendingName[3]
                IN  parsePropertiesScan(tokens, i + 1, from,
                      <<t.start, t.end, t.delimiter>>, nested, from + t.start,
                      Append(result, createProperty(pendingName, before, valuePos,
                                                    valuePos, valuePos, <<>>, from)))
           ELSE parsePropertiesScan(tokens, i + 1, from,
                      <<t.start, t.end, t.delimiter>>, nested, before, result)
      ELSE IF nested = 0 /\ t.type = "propertyValue"
      THEN parsePropertiesScan(tokens, i + 1, from, <<>>, nested,
             from + t.delimiter + 1,
             IF pendingName # <<>>
             THEN Append(result, createProperty(pendingName, before, t.start, t.end,
                                                t.delimiter, t.frags, from))
             ELSE result)
      ELSE parsePropertiesScan(tokens, i + 1, from, pendingName, nested, before, result)

\* parseProperties(code, from, to)
parseProperties(code, from, to) ==
    parsePropertiesScan(CssTokens(BodyPieces(code, from, to), 0), 1, from,
                        <<>>, 0, from, <<>>)

\* getCSSSection(code, pos, properties)
getCSSSectionProperties(code, pos, properties) ==
    LET result == getCSSSection(code, pos)
    IN  IF result # None /\ properties
        THEN [start |-> result.start, end |-> result.end,
              bodyStart |-> result.bodyStart, bodyEnd |-> result.bodyEnd,
              properties |-> parseProperties(code, result.bodyStart, result.bodyEnd)]
        ELSE result

\* -------------------------------------------------- stylesheet select unit
\* Variant of ValueEnd that never counts the delimiter.
ValueEnd_NoDelimiter(end, delimiter) == end

\* delimiter !== -1 ? delimiter + 1 : end
ValueEnd(end, delimiter) == IF delimiter # -1 THEN delimiter + 1 ELSE end

\* The ranges of a value: the full value, then splitValue's fragments.
ValueRanges(ranges, start, end, frags) ==
    pushRanges(pushRange(ranges, <<start, end>>),
               [k \in 1..Len(frags) |-> <<frags[k][1] + start, frags[k][2] + start>>])

\* The callback of selectNextItem of css.ts applied to the tokens from
\* index i on; pending is the pending property name or None.
RECURSIVE selectNextScan(_, _, _, _)
selectNextScan(tokens, i, pos, pending) ==
    IF i > Len(tokens) THEN None
    ELSE
      LET t == tokens[i] IN
      IF t.start < pos THEN selectNextScan(tokens, i + 1, pos, pending)
      ELSE IF t.type = "selector"
      THEN [start |-> t.start, end |-> t.end, ranges |-> << <<t.start, t.end>> >>]
      ELSE IF t.type = "propertyName"
      THEN selectNextScan(tokens, i + 1, pos, t)
      ELSE IF t.type = "propertyValue"
      THEN LET end == ValueEnd(t.end, t.delimiter)
               start == IF pending # None THEN pending.start ELSE t.start
               full == IF pending # None
                       THEN pushRange(<<>>, <<pending.start, end>>) ELSE <<>>
           IN  [start |-> start, end |-> end,
                ranges |-> ValueRanges(full, t.start, t.end, t.frags)]
      ELSE IF pending # None
      THEN [start |-> pending.start, end |-> pending.end,
            ranges |-> << <<pending.start, pending.end>> >>]
      ELSE selectNextScan(tokens, i + 1, pos, pending)

\* selectNextItem(code, pos) of css.ts
selectNextItemCSS(code, pos) == selectNextScan(CssTokens(code, 0), 1, pos, None)

\* Variant of StopsPrevious that stops at a value token too.
StopsPrevious_AnyType(t, pos) == t.start >= pos

\* selectPreviousItem, line 141: the token ends the scan.
StopsPrevious(t, pos) == t.start >= pos /\ t.type # "propertyValue"

\* The callback of selectPreviousItem of css.ts applied to the tokens from
\* index i on: the state after the scan. `value` is the value token seen
\* after the name, or None.
RECURSIVE selectPreviousScan(_, _, _, _)
selectPreviousScan(tokens, i, pos, state) ==
    IF i > Len(tokens) THEN state
    ELSE
      LET t == tokens[i] IN
      IF StopsPrevious(t, pos) THEN state
      ELSE IF t.type \in {"selector", "propertyName"}
      THEN selectPreviousScan(tokens, i + 1, pos,
             [type |-> t.type, start |-> t.start, end |-> t.end, value |-> None])
      ELSE IF t.type = "propertyValue"
      THEN selectPreviousScan(tokens, i + 1, pos, [state EXCEPT !.value = t])
      ELSE selectPreviousScan(tokens, i + 1, pos, state)

\* selectPreviousItem(code, pos) of css.ts
selectPreviousItemCSS(code, pos) ==
    LET state == selectPreviousScan(CssTokens(code, 0), 1, pos,
                   [type |-> "null", start |-> -1, end |-> -1, value |-> None])
    IN  IF state.type = "selector"
        THEN [start |-> state.start, end |-> state.end,
              ranges |-> << <<state.start, state.end>> >>]
        ELSE IF state.type = "propertyName"
        THEN IF state.value # None
             THEN LET end == ValueEnd(state.value.end, state.value.delimiter)
                  IN  [start |-> state.start, end |-> end,
                       ranges |-> ValueRanges(pushRange(<<>>, <<state.start, end>>),
                                              state.value.start, state.value.end,
                                              state.value.frags)]
             ELSE [start |-> state.start, end |-> state.end,
                   ranges |-> pushRange(<<>>, <<state.start, state.end>>)]
        ELSE None

\* selectItemCSS(code, pos, isPrev)
selectItemCSS(code, pos, isPrev) ==
    IF isPrev THEN selectPreviousItemCSS(code, pos) ELSE selectNextItemCSS(code, pos)

\* ------------------------------------------- the functions on their own
\* Markup documents for the context resolver and the tag locators.
MarkupDocs == { d \in SeqsUpTo(ContextPieces, MaxPieces) : RawStyleContent(d, FALSE) }

\* Markup documents for the select-unit functions.
SelectDocs == SeqsUpTo(SelectPieces, MaxPieces)

\* Stylesheet documents: every sequence of up to MaxPieces pieces, and the
\* rule blocks with a body of up to MaxBody names, values, selectors and
\* block ends.
StyleDocs ==
    LET BodyPieceKinds ==
          { CssPiece("selector", <<"a", "{">>, 0, 1, 1, <<>>),
            CssPiece("propertyName", <<"b", ":">>, 0, 1, 1, <<>>),
            CssPiece("propertyValue", <<"c", ";">>, 0, 1, 1, << <<0, 1>> >>),
            CssPiece("blockEnd", <<"}">>, 0, 1, 0, <<>>) }
    IN  SeqsUpTo(CssPieces, MaxPieces)
          \cup { << CssPiece("selector", <<"a", "{">>, 0, 1, 1, <<>>) >> \o body
                     \o << CssPiece("blockEnd", <<"}">>, 0, 1, 0, <<>>) >> :
                   body \in SeqsUpTo(BodyPieceKinds, MaxBody) }

\* A document is given; no function has been called yet.
InitScan ==
    /\ open = {"e1"}
    /\ steps = 0
    /\ doc = [e \in Editors |-> <<>>]
    /\ trackers = [e \in Editors |-> None]
    /\ cache = [e \in Editors |-> None]
    /\ lastPos = [e \in Editors |-> NoPos]
    /\ \/ \E d \in MarkupDocs : call = [op |-> "init", kind |-> "markup", code |-> d]
       \/ \E d \in SelectDocs : call = [op |-> "init", kind |-> "select", code |-> d]
       \/ \E d \in StyleDocs : call = [op |-> "init", kind |-> "stylesheet", code |-> d]

\* One call of a function on the document: its arguments and its result
\* are kept in `call`.
Called(op, pos, arg, result) ==
    /\ call' = [op |-> op, kind |-> call.kind, code |-> call.code, pos |-> pos,
                arg |-> arg, result |-> result]
    /\ steps' = 1
    /\ UNCHANGED <<open, doc, trackers, cache, lastPos>>

GetHTMLContext ==
    /\ steps = 0 /\ call.kind = "markup"
    /\ \E pos \in 0..MarkupLen(call.code), xml \in BOOLEAN :
         Called("getHTMLContext", pos, xml,
                getHTMLContext(call.code, pos, [xml |-> xml, skipCSS |-> FALSE]))

GetOpenTag ==
    /\ steps = 0 /\ call.kind = "markup"
    /\ \E pos \in 0..MarkupLen(call.code) :
         Called("getOpenTag", pos, FALSE, getOpenTag(call.code, pos))

FindTagMatch ==
    /\ steps = 0 /\ call.kind = "markup"
    /\ \E pos \in 0..MarkupLen(call.code) :
         Called("findTagMatch", pos, FALSE, findTagMatch(call.code, pos))

SelectItemHTML ==
    /\ steps = 0 /\ call.kind = "select"
    /\ \E pos \in 0..MarkupLen(call.code), isPrev \in BOOLEAN :
         Called("selectItemHTML", pos, isPrev, selectItemHTML(call.code, pos, isPrev))

GetCSSContext ==
    /\ steps = 0 /\ call.kind = "stylesheet"
    /\ \E pos \in 0..Len(SourceText(call.code)) :
         Called("getCSSContext", pos, FALSE, getCSSContext(call.code, pos, None))

GetCSSSection ==
    /\ steps = 0 /\ call.kind = "stylesheet"
    /\ \E pos \in 0..Len(SourceText(call.code)), properties \in BOOLEAN :
         Called("getCSSSection", pos, properties,
                getCSSSectionProperties(call.code, pos, properties))

SelectItemCSS ==
    /\ steps = 0 /\ call.kind = "stylesheet"
    /\ \E pos \in 0..Len(SourceText(call.code)), isPrev \in BOOLEAN :
         Called("selectItemCSS", pos, isPrev, selectItemCSS(call.code, pos, isPrev))

NextScan ==
    \/ GetHTMLContext
    \/ GetOpenTag
    \/ FindTagMatch
    \/ SelectItemHTML
    \/ GetCSSContext
    \/ GetCSSSection
    \/ SelectItemCSS

SpecScan == InitScan /\ [][NextScan]_vars

\* ===================================================================
\* Properties of the tracking controller
\* ===================================================================
\* lastPos of tracker t lies within its range.
InRange(t) == t.range[1] <= t.lastPos /\ t.lastPos <= t.range[2]

\* The cached tracker t may be restored at pos in document d.
Eligible(t, d, pos) ==
    /\ t # None
    /\ t.range[1] <= pos /\ pos <= t.range[2]
    /\ Substr(d, t.range[1] + t.offset, t.range[2]) = t.abbreviation

\* Paths on which handleChange ends the active tracker.
StopPaths == {"outside", "null", "invalid"}

\* C1 as stated: after every handleChange or handleSelectionChange call the
\* active tracker of the editor has range[0] <= lastPos <= range[1].
C1_LastPosInRange ==
    \A e \in Editors :
      (call.ed = e /\ call.op \in {"handleChange", "handleSelectionChange"}
         /\ trackers[e] # None)
      => InRange(trackers[e])

\* C1 amended: a tracker starts with lastPos = range[1];
\* handleSelectionChange sets lastPos to the reported caret, wherever it
\* is; handleChange keeps a tracker active only if its lastPos lay within
\* [range[0], range[1]] when the call began.
C1_LastPosCheckedOnChange ==
    [][\A e \in Editors : call'.ed = e =>
         /\ (call'.path = "started"
               => trackers'[e].lastPos = trackers'[e].range[2])
         /\ (call'.op = "handleSelectionChange" /\ trackers'[e] # None
               => trackers'[e].lastPos = lastPos'[e])
         /\ (call'.op = "handleChange" /\ trackers[e] # None /\ trackers'[e] # None
               => InRange(trackers[e]))]_vars

\* handleChange kept a tracker whose lastPos had been moved by the caret.
C1_Witness ==
    \E e \in Editors :
      /\ call.ed = e /\ call.op = "handleChange" /\ call.path = "updated"
      /\ trackers[e] # None /\ trackers[e].lastPos = lastPos[e]

C3_StopMovesToCache ==
    [][\A e \in Editors : call'.ed = e =>
         /\ (call'.op = "stopTracking" /\ call'.path = "store" /\ trackers[e] # None
               => cache'[e] = trackers[e] /\ trackers'[e] = None)
         /\ (call'.op = "stopTracking" /\ call'.path = "force" /\ trackers[e] # None
               => cache'[e] = None /\ trackers'[e] = None)
         /\ (call'.op = "handleChange" /\ call'.path \in StopPaths
               => trackers[e] # None /\ cache'[e] = trackers[e] /\ trackers'[e] = None)
         /\ (call'.path = "suppressed"
               => /\ trackers'[e] = None
                  /\ cache'[e] # None
                  /\ cache'[e].type = "abbreviation"
                  /\ ~cache'[e].forced
                  /\ cache'[e].config.context = ScopeSection
                  /\ cache'[e].lastLength = Len(doc'[e])
                  /\ cache'[e].abbreviation =
                       Substr(doc'[e], cache'[e].range[1] + cache'[e].offset,
                              cache'[e].range[2]))]_vars

\* The host stopped an Error tracker, which is now the cached tracker.
C3_Witness ==
    \E e \in Editors :
      /\ call.ed = e /\ call.op = "stopTracking" /\ call.path = "store"
      /\ call.unmark = 1
      /\ trackers[e] = None /\ cache[e] # None /\ cache[e].type = "error"

\* C4 as stated: after handleChange ended a tracker the editor has neither
\* an active nor a cached tracker.
C4_EndClearsCache ==
    \A e \in Editors :
      (call.ed = e /\ call.op = "handleChange" /\ call.path \in StopPaths)
      => (trackers[e] = None /\ cache[e] = None)

\* C4 amended: when handleChange ends a tracker, the tracker is removed
\* from the active map and becomes the editor's cached tracker.
C4_EndMovesToCache ==
    [][\A e \in Editors :
         (call'.ed = e /\ call'.op = "handleChange"
            /\ trackers[e] # None /\ trackers'[e] = None)
         => (cache'[e] = trackers[e] /\ call'.unmark = 1)]_vars

\* handleChange ended a tracker whose lastPos was outside its range.
C4_Witness ==
    \E e \in Editors :
      /\ call.ed = e /\ call.op = "handleChange" /\ call.path = "outside"
      /\ trackers[e] = None /\ cache[e] # None

\* C5: handleSelectionChange(pos) without an active tracker restores the
\* cached tracker exactly when pos is within its range and the document
\* text from range[0] + offset to range[1] equals its abbreviation; the
\* restored tracker leaves the cache and gets lastPos = pos. With an
\* active tracker the cache is not touched.
C5_RestoreWhenEligible ==
    [][\A e \in Editors : (call'.ed = e /\ call'.op = "handleSelectionChange") =>
         LET pos == lastPos'[e]
         IN  IF trackers[e] = None
             THEN IF Eligible(cache[e], doc[e], pos)
                  THEN /\ trackers'[e] = [cache[e] EXCEPT !.lastPos = pos]
                       /\ cache'[e] = None
                  ELSE trackers'[e] = None
             ELSE /\ trackers'[e] = [trackers[e] EXCEPT !.lastPos = pos]
                  /\ cache'[e] = cache[e]]_vars

\* A tracker with a prefix offset was restored at the caret.
C5_Witness ==
    \E e \in Editors :
      /\ call.ed = e /\ call.op = "handleSelectionChange" /\ call.path = "restored"
      /\ trackers[e] # None /\ trackers[e].offset = 1
      /\ trackers[e].lastPos = lastPos[e]
      /\ cache[e] = None

\* C6 as stated: a restoration attempt that finds a cached tracker which
\* is not eligible leaves the editor without a cached tracker.
C6_IneligibleDiscarded ==
    [][\A e \in Editors :
         (call'.ed = e /\ call'.op = "handleSelectionChange"
            /\ trackers[e] = None /\ cache[e] # None
            /\ ~Eligible(cache[e], doc[e], lastPos'[e]))
         => cache'[e] = None]_vars

\* C6 amended: the cache entry is discarded when the caret lies within the
\* cached range but the document text no longer equals the abbreviation;
\* when the caret lies outside the cached range the entry is kept.
C6_MismatchDiscarded ==
    [][\A e \in Editors :
         (call'.ed = e /\ call'.op = "handleSelectionChange"
            /\ trackers[e] = None /\ cache[e] # None
            /\ ~Eligible(cache[e], doc[e], lastPos'[e]))
         => IF cache[e].range[1] <= lastPos'[e] /\ lastPos'[e] <= cache[e].range[2]
            THEN cache'[e] = None
            ELSE cache'[e] = cache[e]]_vars

\* The caret entered a cached range whose text had changed.
C6_Witness ==
    \E e \in Editors :
      /\ call.ed = e /\ call.op = "handleSelectionChange" /\ call.path = "mismatch"
      /\ trackers[e] = None /\ cache[e] = None

C8_TypingStartConditions ==
    [][\A e \in Editors :
         (call'.ed = e /\ call'.op = "handleChange" /\ trackers[e] = None) =>
           /\ (trackers'[e] # None =>
                 /\ lastPos[e] # NoPos
                 /\ lastPos[e] = lastPos'[e] - 1
                 /\ call'.path = "started"
                 /\ \E syntax \in Syntaxes :
                      LET t == TypingStart(doc'[e], lastPos'[e], syntax)
                      IN  /\ t.start >= 0
                          /\ trackers'[e].range[1] = t.start
                          /\ trackers'[e].offset = t.offset)
           /\ (call'.path \in {"nocaret", "denied", "nostart", "nocontext", "cssbound"}
                 => trackers'[e] = None /\ cache'[e] = cache[e])
           /\ (~(lastPos[e] # NoPos /\ lastPos[e] = lastPos'[e] - 1)
                 => call'.path = "nocaret")
           /\ ((\A syntax \in Syntaxes :
                  TypingStart(doc'[e], lastPos'[e], syntax).start < 0)
                 => call'.path \in {"nocaret", "denied", "nostart"})]_vars

\* Typing produced a tracker while an older one stayed cached.
C8_Witness ==
    \E e \in Editors :
      /\ call.ed = e /\ call.op = "handleChange" /\ call.path = "started"
      /\ trackers[e] # None /\ cache[e] # None

\* d2 is d1 with character ch typed at caret p.
Typed(d1, d2, p, ch) == d2 = SubSeq(d1, 1, p) \o <<ch>> \o SubSeq(d1, p + 1, Len(d1))

\* d2 is d1 with the character before caret p deleted.
Backspaced(d1, d2, p) ==
    p > 0 /\ d2 = SubSeq(d1, 1, p - 1) \o SubSeq(d1, p + 1, Len(d1))

\* Tracker t of editor e has seen every edit and caret move so far.
Fresh(t, e) ==
    /\ t.lastLength = Len(doc[e])
    /\ t.lastPos = lastPos[e]
    /\ InRange(t)
    /\ t.lastPos <= Len(doc[e])

\* C9: the typing scenario, step by step. (1) With a known caret right
\* after white space, typing an identifier character where tracking is
\* allowed and a context resolves starts a tracker covering that
\* character. (2) A character typed at the caret of a tracker that has
\* seen every edit grows the range end by one and sets lastPos to the new
\* caret, if the tracker stays; it stays when an identifier character is
\* typed into the text of a Valid tracker. (3) Deleting the last character after the
\* tracker's start offset ends tracking and empties the active entry.
C9_TypingScenario ==
    [][\A e \in Editors : (call'.ed = e /\ call'.op = "handleChange") =>
         LET p == lastPos[e]
             t == trackers[e]
         IN  /\ (/\ t = None
                 /\ p # NoPos /\ p >= 1 /\ p <= Len(doc[e])
                 /\ doc[e][p] = "\n"
                 /\ Typed(doc[e], doc'[e], p, "a")
                 /\ lastPos'[e] = p + 1
                 /\ call'.path \notin {"denied", "nocontext", "nostart", "suppressed"})
                => /\ trackers'[e] # None
                   /\ trackers'[e].range = <<p, p + 1>>
                   /\ trackers'[e].abbreviation = <<"a">>
                   /\ trackers'[e].lastPos = p + 1
             /\ (/\ t # None /\ ~t.forced /\ Fresh(t, e)
                 /\ \E ch \in Chars : Typed(doc[e], doc'[e], p, ch)
                 /\ lastPos'[e] = p + 1
                 /\ trackers'[e] # None)
                => /\ trackers'[e].range = <<t.range[1], t.range[2] + 1>>
                   /\ trackers'[e].lastPos = p + 1
             /\ (/\ t # None /\ ~t.forced /\ Fresh(t, e)
                 /\ t.type = "abbreviation"
                 /\ p >= t.range[1] + t.offset
                 /\ Typed(doc[e], doc'[e], p, "a")
                 /\ lastPos'[e] = p + 1)
                => trackers'[e] # None
             /\ (/\ t # None /\ ~t.forced /\ Fresh(t, e)
                 /\ p = t.range[2]
                 /\ t.range[2] - (t.range[1] + t.offset) = 1
                 /\ Backspaced(doc[e], doc'[e], p)
                 /\ lastPos'[e] = p - 1)
                => trackers'[e] = None]_vars

\* After five keystrokes: white space, two identifier characters typed and
\* both deleted again; the tracker has just ended.
C9_Witness ==
    \E e \in Editors :
      /\ call.ed = e /\ call.op = "handleChange" /\ call.path = "null"
      /\ steps = 5
      /\ doc[e] = <<"\n">>
      /\ trackers[e] = None
      /\ cache[e] # None /\ cache[e].range = <<1, 2>> /\ cache[e].lastLength = 2

\* C10: createTracker returns nothing when range[0] >= range[1], when the
\* text of the range after the prefix offset is empty or when it contains
\* a line break; an Error tracker with the failure's message and position
\* when parsing or rendering fails; a Valid tracker otherwise.
C10_CreateTrackerCases ==
    \A e \in Editors : (call.op = "createTracker" /\ call.ed = e) =>
      LET text == Slice(Substr(doc[e], call.range[1], call.range[2]), call.offset)
          t == trackers[e]
          rejected == \/ call.range[1] >= call.range[2]
                      \/ text = <<>>
                      \/ HasLineBreak(text)
          perr == ParseError(text)
      IN  /\ t.type \in {"none", "error", "abbreviation"}
          /\ (t = None <=> rejected)
          /\ (~rejected /\ perr # -1
                => t.type = "error" /\ t.error = [message |-> "parse", pos |-> perr])
          /\ (~rejected /\ perr = -1 /\ call.expander = "throws"
                => t.type = "error" /\ t.error.message = "expand")
          /\ (~rejected /\ perr = -1 /\ call.expander # "throws"
                => t.type = "abbreviation" /\ t.error = NoError)
          /\ (t # None
                => /\ t.abbreviation = text
                   /\ t.range = call.range
                   /\ t.offset = call.offset
                   /\ t.forced = call.forced
                   /\ t.config = call.config
                   /\ t.lastPos = call.range[2]
                   /\ t.lastLength = Len(doc[e]))

\* createTracker returned an Error tracker for text after a prefix offset.
C10_Witness ==
    \E e \in Editors :
      /\ call.op = "createTracker" /\ call.ed = e
      /\ call.offset = 1
      /\ trackers[e] # None /\ trackers[e].type = "error"
      /\ trackers[e].error.message = "parse"

\* ===================================================================
\* Properties of the context resolvers, tag locators and select units
\* ===================================================================
\* Each range of a list of ancestors lies strictly inside the one before.
AncestorsNested(ancestors) ==
    \A k \in 1..(Len(ancestors) - 1) :
        /\ ancestors[k].range[1] < ancestors[k + 1].range[1]
        /\ ancestors[k + 1].range[2] < ancestors[k].range[2]

\* The ranges of a list of ancestors follow one another in the text
\* without overlapping.
AncestorsInOrder(ancestors) ==
    \A k \in 1..(Len(ancestors) - 1) :
        ancestors[k].range[2] <= ancestors[k + 1].range[1]

\* C11, as stated: ancestors are ordered outermost first and the reported
\* range of each ancestor lies strictly inside the reported range of the
\* ancestor before it.
C11_AncestorRangesNested ==
    /\ call.op = "getHTMLContext" =>
         /\ AncestorsNested(call.result.ancestors)
         /\ call.result.css # None => AncestorsNested(call.result.css.ancestors)
    /\ call.op = "getCSSContext" => AncestorsNested(call.result.ancestors)

\* C11, amended: the reported ranges are those of the open tags (markup)
\* or of the selector and name tokens (stylesheet), so they are ordered
\* outermost first, follow one another without overlapping, and end at
\* or before the position (before it, for a stylesheet) and before the
\* current token.
C11_AncestorRangesInOrder ==
    /\ call.op = "getHTMLContext" =>
         LET r == call.result IN
         /\ AncestorsInOrder(r.ancestors)
         /\ \A k \in 1..Len(r.ancestors) :
              /\ r.ancestors[k].range[1] < r.ancestors[k].range[2]
              /\ r.ancestors[k].range[2] <= call.pos
              /\ r.current # None => r.ancestors[k].range[2] <= r.current.range[1]
         /\ r.css # None =>
              /\ AncestorsInOrder(r.css.ancestors)
              /\ \A k \in 1..Len(r.css.ancestors) :
                   /\ r.css.ancestors[k].range[2] < call.pos
                   /\ r.css.current # None =>
                        r.css.ancestors[k].range[2] <= r.css.current.range[1]
    /\ call.op = "getCSSContext" =>
         LET r == call.result IN
         /\ AncestorsInOrder(r.ancestors)
         /\ \A k \in 1..Len(r.ancestors) :
              /\ r.ancestors[k].range[1] <= r.ancestors[k].range[2]
              /\ r.ancestors[k].range[2] < call.pos
              /\ r.current # None => r.ancestors[k].range[2] <= r.current.range[1]

\* A markup context with two ancestors, and a stylesheet context with two.
C11_Witness ==
    /\ call.op = "getHTMLContext"
    /\ Len(call.result.ancestors) >= 2
    /\ call.result.css # None
    /\ Len(call.result.css.ancestors) >= 2

\* C12: the result of a context resolver is the one obtained when every
\* pushed token gets a record of its own, and at the end of the scan no
\* record is on the stack twice or both on the stack and in the pool.
C12_PoolingUnobservable ==
    /\ call.op = "getHTMLContext" =>
         /\ call.result = htmlContextWith(call.code, call.pos,
                                          [xml |-> call.arg, skipCSS |-> FALSE], FALSE)
         /\ LET st == htmlContextScan(HtmlTokens(call.code, 0), 1, call.pos,
                                      call.arg, TRUE, ScanState)
            IN  /\ \A i, j \in 1..Len(st.stack) : st.stack[i] = st.stack[j] => i = j
                /\ \A i \in 1..Len(st.stack), j \in 1..Len(st.pool) :
                     st.stack[i] # st.pool[j]
    /\ call.op = "getCSSContext" =>
         /\ call.result = cssContextWith(call.code, call.pos, None, FALSE)
         /\ LET st == cssContextScan(CssTokens(call.code, 0), 1, call.pos,
                                     TRUE, ScanState)
            IN  /\ \A i, j \in 1..Len(st.stack) : st.stack[i] = st.stack[j] => i = j
                /\ \A i \in 1..Len(st.stack), j \in 1..Len(st.pool) :
                     st.stack[i] # st.pool[j]

\* A scan that reused a released record for an ancestor of the result.
C12_Witness ==
    /\ call.op = "getHTMLContext"
    /\ call.result.ancestors # <<>>
    /\ LET pooled == htmlContextScan(HtmlTokens(call.code, 0), 1, call.pos,
                                     call.arg, TRUE, ScanState)
           fresh == htmlContextScan(HtmlTokens(call.code, 0), 1, call.pos,
                                    call.arg, FALSE, ScanState)
       IN  /\ Len(pooled.heap) < Len(fresh.heap)
           /\ pooled.pool = <<>>

\* A select-unit function returned a model.
SelectionModel == call.op \in {"selectItemHTML", "selectItemCSS"} /\ call.result # None

C14_SectionContainment ==
    (call.op = "getCSSSection" /\ call.result # None) =>
      LET s == call.result IN
      /\ s.start <= s.bodyStart /\ s.bodyStart <= s.bodyEnd /\ s.bodyEnd <= s.end
      /\ s.start <= call.pos /\ call.pos <= s.end

\* A section with a body, found for a position inside it.
C14_Witness ==
    /\ call.op = "getCSSSection"
    /\ call.result # None
    /\ call.result.bodyStart < call.result.bodyEnd
    /\ call.result.bodyStart <= call.pos
    /\ call.pos <= call.result.bodyEnd

\* The tokens of the document of a call to a tag locator.
CallTokens == HtmlTokens(call.code, 0)

C17_InnermostMatch ==
    call.op = "findTagMatch" =>
      LET source == getTagMatches(call.code)
          from(k) == source[k].open[1]
          to(k) == IF source[k].close # None THEN source[k].close[2]
                   ELSE source[k].open[2]
          containing == { k \in 1..Len(source) : from(k) < call.pos /\ call.pos < to(k) }
      IN  /\ call.result = None <=> containing = {}
          /\ call.result # None =>
               \E k \in containing :
                  /\ call.result = source[k]
                  /\ \A j \in containing : from(j) <= from(k) /\ to(k) <= to(j)
          /\ \A k \in containing : \A j \in 1..(k - 1) : from(j) <= call.pos

\* A position inside a tag that lies in the content of a closed element:
\* two matches contain the position and the inner one is returned.
C17_Witness ==
    /\ call.op = "findTagMatch"
    /\ call.result # None
    /\ LET source == getTagMatches(call.code)
       IN  \E j \in 1..Len(source) :
              /\ source[j].close # None
              /\ source[j].open[2] <= call.result.open[1]
              /\ call.result.open[2] <= source[j].close[1]
              /\ call.pos < call.result.open[2]

\* The stylesheet source a markup context takes its stylesheet context
\* from: the value of the style attribute of the current tag, or the text
\* of the range reported as embedded.
EmbeddedSource(code, result) ==
    IF result.current # None
    THEN LET attrs == attributes(HtmlTokens(code, 0), result.current.range[1])
         IN  attrs[CHOOSE k \in 1..Len(attrs) : attrs[k].name = StyleName].css
    ELSE TextCss(PiecesUpTo(PiecesFrom(code, result.css.embedded[1]),
                            result.css.embedded[2] - result.css.embedded[1]))

\* C18: every range of a stylesheet context attached by getHTMLContext is
\* the range getCSSContext computes on the embedded text, moved by the
\* start of that text, and lies within the embedded range; inline is TRUE
\* for a style attribute and FALSE for a style element.
C18_EmbeddedRanges ==
    (call.op = "getHTMLContext" /\ call.result.css # None) =>
      LET css == call.result.css
          from == css.embedded[1]
          source == EmbeddedSource(call.code, call.result)
          inner == getCSSContext(source, call.pos - from, css.embedded)
          moved(m, n) == /\ n.name = m.name /\ n.type = m.type
                         /\ n.range[1] = m.range[1] + from
                         /\ n.range[2] = m.range[2] + from
                         /\ from <= n.range[1] /\ n.range[2] <= css.embedded[2]
      IN  /\ css.embedded[2] - from = Len(SourceText(source))
          /\ from <= call.pos /\ call.pos <= css.embedded[2]
          /\ Len(css.ancestors) = Len(inner.ancestors)
          /\ \A k \in 1..Len(css.ancestors) : moved(inner.ancestors[k], css.ancestors[k])
          /\ css.current = None <=> inner.current = None
          /\ css.current # None => moved(inner.current, css.current)
          /\ css.inline <=> call.result.current # None
          /\ css.inline =>
               /\ call.result.current.type \in {"Open", "Close"}
               /\ call.result.current.range[1] < from
               /\ css.embedded[2] < call.result.current.range[2]
          /\ ~css.inline =>
               /\ last(call.result.ancestors).name = StyleName
               /\ last(call.result.ancestors).range[2] = from

\* A stylesheet context with an ancestor and a current token, taken from
\* text that does not start the document.
C18_Witness ==
    /\ call.op = "getHTMLContext"
    /\ call.result.css # None
    /\ call.result.css.embedded[1] > 0
    /\ call.result.css.ancestors # <<>>
    /\ call.result.css.current # None

\* A list of ranges without its empty ranges and without the ranges equal
\* to the one before them.
Squeezed(list) ==
    LET filled(r) == r[1] # r[2]
        full == SelectSeq(list, filled)
        keep == { k \in 1..Len(full) : k = 1 \/ full[k] # full[k - 1] }
    IN  [i \in 1..Cardinality(keep) |->
           full[CHOOSE k \in keep : Cardinality({ j \in keep : j <= k }) = i]]

\* The words of a text that starts at offset `at`: the maximal runs of
\* characters other than white space, in the order of the text.
Words(text, at) ==
    LET runs == { r \in (0..Len(text)) \X (0..Len(text)) :
                    /\ r[1] < r[2]
                    /\ \A i \in (r[1] + 1)..r[2] : ~isSpace(text[i])
                    /\ r[1] > 0 => isSpace(text[r[1]])
                    /\ r[2] < Len(text) => isSpace(text[r[2] + 1]) }
    IN  [i \in 1..Cardinality(runs) |->
           LET r == CHOOSE x \in runs : Cardinality({ y \in runs : y[1] <= x[1] }) = i
           IN  <<at + r[1], at + r[2]>>]

\* The ranges of the attributes of a tag that starts at `start`: for an
\* attribute with a value its span from name to value, the span of the
\* value without its quotes or braces and, for class, the words of the
\* value; for an attribute without value the span of its name.
RECURSIVE AttributeSpans(_, _)
AttributeSpans(attrs, start) ==
    IF attrs = <<>> THEN <<>>
    ELSE LET a == attrs[1]
             wrapped == /\ a.value # <<>>
                        /\ \/ isQuote(a.value[1])
                           \/ a.value[1] = "{" /\ a.value[Len(a.value)] = "}"
             from == IF wrapped THEN a.valueStart + 1 ELSE a.valueStart
             to == IF wrapped THEN a.valueEnd - 1 ELSE a.valueEnd
             inner == SubSeq(a.value, from - a.valueStart + 1, to - a.valueStart)
         IN  (IF a.hasValue
              THEN << <<start + a.nameStart, start + a.valueEnd>>,
                      <<start + from, start + to>> >>
                   \o (IF a.name = ClassName THEN Words(inner, start + from) ELSE <<>>)
              ELSE << <<start + a.nameStart, start + a.nameEnd>> >>)
             \o AttributeSpans(Tail(attrs), start)

\* The ranges of a tag: its name, then the ranges of its attributes.
TagSpans(t) ==
    << <<t.start + 1, t.start + 1 + Len(t.name)>> >> \o AttributeSpans(t.attrs, t.start)

\* The tag selectItemHTML builds its model from, or None: the first open
\* or self-closing tag that ends after pos (next), the last one that
\* starts before pos (previous).
SelectedTag ==
    LET tokens == HtmlTokens(call.code, 0)
        tags == { k \in 1..Len(tokens) : tokens[k].type \in {"Open", "SelfClose"} }
        found == IF call.arg THEN { k \in tags : tokens[k].start < call.pos }
                 ELSE { k \in tags : tokens[k].end > call.pos }
    IN  IF found = {} THEN None
        ELSE tokens[CHOOSE k \in found :
                      \A j \in found : IF call.arg THEN j <= k ELSE k <= j]

\* C19, as stated: the model of selectItemHTML has the bounds of the
\* selected tag and its ranges are the tag name, then for each attribute
\* its span from name to value, its value without quotes or braces and,
\* for class, one range for each word; the name alone for an attribute
\* without value.
C19_TagModelAllRanges ==
    call.op = "selectItemHTML" =>
      /\ call.result = None <=> SelectedTag = None
      /\ call.result # None =>
           /\ call.result.start = SelectedTag.start
           /\ call.result.end = SelectedTag.end
           /\ call.result.ranges = TagSpans(SelectedTag)

\* C19, amended: the ranges are that list without its empty ranges and
\* without the ranges equal to the one before them: an empty value adds
\* no value range, a class value of one word adds no range for the word.
C19_TagModelSqueezed ==
    call.op = "selectItemHTML" =>
      /\ call.result = None <=> SelectedTag = None
      /\ call.result # None =>
           /\ call.result.start = SelectedTag.start
           /\ call.result.end = SelectedTag.end
           /\ call.result.ranges = Squeezed(TagSpans(SelectedTag))

\* The model of a tag, selected backwards, with fewer ranges than the
\* list has: a range was empty or equal to the one before it.
C19_Witness ==
    /\ call.op = "selectItemHTML"
    /\ call.arg
    /\ call.result # None
    /\ call.result.start > 0
    /\ Len(call.result.ranges) < Len(TagSpans(SelectedTag))

\* The tokens selectItemCSS builds its model from, as indices in the
\* token stream (0 for none): the selector, or the name and the value.
\* Next: the first selector or value that starts at or after pos, or the
\* first block end after a name, decides; the name is the latest one
\* between pos and the value. Previous: the scan runs to the first token
\* other than a value that starts at or after pos; the latest selector
\* or name before that decides, with the latest value after it.
SelectedProperty ==
    LET tokens == CssTokens(call.code, 0)
        all == 1..Len(tokens)
        least(S) == IF S = {} THEN 0 ELSE CHOOSE k \in S : \A j \in S : k <= j
        most(S) == IF S = {} THEN 0 ELSE CHOOSE k \in S : \A j \in S : j <= k
        after == { k \in all : tokens[k].start >= call.pos }
        names == { k \in all : tokens[k].type = "propertyName" }
        values == { k \in all : tokens[k].type = "propertyValue" }
        selectors == { k \in all : tokens[k].type = "selector" }
        decisive == least({ k \in after :
                              \/ k \in selectors \cup values
                              \/ /\ tokens[k].type = "blockEnd"
                                 /\ \E j \in after \cap names : j < k })
        stop == least(after \ values)
        seen == IF stop = 0 THEN all ELSE 1..(stop - 1)
        named == most(seen \cap (selectors \cup names))
    IN  IF call.arg
        THEN [tokens |-> tokens,
              selector |-> IF named \in selectors THEN named ELSE 0,
              name |-> IF named \in names THEN named ELSE 0,
              value |-> IF named \in names
                        THEN most({ k \in seen \cap values : k > named }) ELSE 0]
        ELSE [tokens |-> tokens,
              selector |-> IF decisive \in selectors THEN decisive ELSE 0,
              name |-> IF decisive = 0 \/ decisive \in selectors THEN 0
                       ELSE most({ k \in after \cap names : k <= decisive }),
              value |-> IF decisive \in values THEN decisive ELSE 0]

\* The ranges of a property with a value: the property from its name to
\* the end of the model, the value, then the fragments of the value.
PropertySpans(name, value, end) ==
    << <<name.start, end>>, <<value.start, value.end>> >>
    \o [k \in 1..Len(value.frags) |->
          <<value.frags[k][1] + value.start, value.frags[k][2] + value.start>>]

\* The model of the selected tokens, with its ranges taken from the list
\* of ranges of a property as `listed` gives them.
PropertyModelWith(listed(_)) ==
    LET p == SelectedProperty IN
    /\ (p.name # 0 /\ p.value # 0) =>
         LET name == p.tokens[p.name]
             value == p.tokens[p.value]
             end == IF value.delimiter # -1 THEN value.delimiter + 1 ELSE value.end
         IN  /\ call.result # None
             /\ call.result.start = name.start
             /\ call.result.end = end
             /\ call.result.ranges = listed(PropertySpans(name, value, end))
    /\ p.selector # 0 =>
         /\ call.result # None
         /\ call.result.start = p.tokens[p.selector].start
         /\ call.result.end = p.tokens[p.selector].end
         /\ call.result.ranges =
              << <<p.tokens[p.selector].start, p.tokens[p.selector].end>> >>

\* C20, as stated: for a selected property with a value the model starts
\* at the name, ends one past the delimiter of the value (at the end of
\* the value when there is no delimiter) and its ranges are the property,
\* the value and one range for each fragment of the value; a selected
\* selector gives a model with the span of the selector as only range.
C20_PropertyModelAllRanges ==
    call.op = "selectItemCSS" =>
      LET every(list) == list IN PropertyModelWith(every)

\* C20, amended: the ranges are that list without its empty ranges and
\* without the ranges equal to the one before them: an empty value adds
\* no value range, a value of one fragment adds no range for the fragment.
C20_PropertyModelSqueezed ==
    call.op = "selectItemCSS" => PropertyModelWith(Squeezed)

\* The model of a property with a value of two fragments, its name the
\* second of two names at or after the position.
C20_Witness ==
    /\ call.op = "selectItemCSS"
    /\ ~call.arg
    /\ SelectedProperty.name = 2
    /\ SelectedProperty.value = 3
    /\ Len(call.result.ranges) = 4
    /\ call.pos = 0

\* ===================================================================
\* Further properties of the tracking controller
\* ===================================================================
\* C21: after disposeEditor(editor), whatever came before, the editor has
\* no active tracker, no cached tracker and no last known caret.
C21_DisposedEditorForgotten ==
    \A e \in Editors :
      (call.op = "disposeEditor" /\ call.ed = e) =>
        /\ trackers[e] = None
        /\ cache[e] = None
        /\ lastPos[e] = NoPos

\* An editor disposed after three calls that edited its document.
C21_Witness ==
    /\ call.op = "disposeEditor"
    /\ steps = MaxCalls
    /\ doc[call.ed] # <<>>

\* C22: handleChange on an active tracker whose lastPos lies outside
\* [range[0], range[1]] ends tracking, forced or not and whatever the
\* edit: the call returns nothing from the range check and the editor has
\* no active tracker afterwards.
C22_EditOutsideEndsTracking ==
    [][\A e \in Editors :
         ( /\ call'.op = "handleChange" /\ call'.ed = e
           /\ trackers[e] # None
           /\ \/ trackers[e].lastPos < trackers[e].range[1]
              \/ trackers[e].lastPos > trackers[e].range[2] )
         => /\ trackers'[e] = None
            /\ call'.path = "outside"
            /\ call'.mark = 0]_vars

\* A forced tracker ended by an edit made with the caret before its range.
C22_Witness ==
    /\ call.op = "handleChange"
    /\ call.path = "outside"
    /\ cache[call.ed] # None
    /\ cache[call.ed].forced
    /\ cache[call.ed].lastPos < cache[call.ed].range[1]

\* The range after a change of the length by delta, with the caret last
\* at lp: `atEnd` tells whether text removed with the caret at the end of
\* the range shrinks the range.
ShiftedRange(range, delta, lp, atEnd) ==
    IF delta < 0 /\ lp = range[1]
    THEN <<range[1] + delta, range[2] + delta>>
    ELSE IF delta < 0 /\ range[1] < lp /\ (lp < range[2] \/ (atEnd /\ lp = range[2]))
    THEN <<range[1], range[2] + delta>>
    ELSE IF delta > 0 /\ range[1] <= lp /\ lp <= range[2]
    THEN <<range[1], range[2] + delta>>
    ELSE range

\* On every handleChange on an active tracker, updateRange gives the
\* range ShiftedRange describes, for the range and lastPos of the tracker
\* and every delta; the tracker that is kept has that range for the delta
\* of the edit.
RangeUpdatedAs(atEnd) ==
    \A e \in Editors :
      (call'.op = "handleChange" /\ call'.ed = e /\ trackers[e] # None) =>
        LET t == trackers[e] IN
        /\ \A delta \in (-MaxLenTracked)..MaxLenTracked :
             updateRange(t.range, delta, t.lastPos)
               = ShiftedRange(t.range, delta, t.lastPos, atEnd)
        /\ call'.path = "updated" =>
             trackers'[e].range =
               ShiftedRange(t.range, Len(doc'[e]) - t.lastLength, t.lastPos, atEnd)

\* C23, as stated: updateRange shifts both ends by delta when delta < 0
\* and lastPos = range[0], shrinks the end when delta < 0 and lastPos is
\* strictly inside the range, grows the end when delta > 0 and lastPos is
\* within the range or at its bounds, and leaves the range unchanged in
\* every other case.
C23_UpdateRangeStrictlyInside == [][RangeUpdatedAs(FALSE)]_vars

\* C23, amended: text removed with lastPos at the end of the range
\* shrinks the end as well: the end shrinks when delta < 0 and
\* range[0] < lastPos <= range[1].
C23_UpdateRangeUpToEnd == [][RangeUpdatedAs(TRUE)]_vars

\* A tracker kept after a character was removed from a document of
\* MaxLenTracked characters, its range shrunk to the caret.
C23_Witness ==
    /\ call.op = "handleChange"
    /\ call.path = "updated"
    /\ Len(doc[call.ed]) = MaxLenTracked - 1
    /\ trackers[call.ed].range[2] = lastPos[call.ed]

\* C24, as stated: when reconciliation in handleChange leaves a forced
\* tracker with an empty range, tracking continues and the active tracker
\* has that empty range and the empty abbreviation.
C24_ForcedEmptyHasEmptyRange ==
    [][\A e \in Editors :
         (call'.op = "handleChange" /\ call'.ed = e /\ call'.path = "forcedEmpty") =>
           /\ trackers'[e] # None
           /\ trackers'[e].range[1] = trackers'[e].range[2]
           /\ trackers'[e].abbreviation = <<>>]_vars

\* C24, amended: when the range adjusted for the edit is empty and the
\* tracker is forced, tracking continues with the same tracker: only its
\* abbreviation changes, to the empty text; its range, lastPos and
\* lastLength stay as they were before the edit, the editor is not marked
\* again and nothing goes to the cache.
C24_ForcedEmptyKeepsRange ==
    [][\A e \in Editors :
         (call'.op = "handleChange" /\ call'.ed = e /\ call'.path = "forcedEmpty") =>
           LET t == trackers[e]
               range2 == updateRange(t.range, Len(doc'[e]) - t.lastLength, t.lastPos)
           IN  /\ t # None /\ t.forced
               /\ range2[1] = range2[2]
               /\ trackers'[e] = [t EXCEPT !.abbreviation = <<>>]
               /\ cache'[e] = cache[e]
               /\ call'.mark = 0 /\ call'.unmark = 0 /\ call'.replace = 0]_vars

\* A forced tracker left after its only character was removed: its
\* abbreviation is empty and its range still spans the removed character.
C24_Witness ==
    /\ call.op = "handleChange"
    /\ call.path = "forcedEmpty"
    /\ trackers[call.ed].abbreviation = <<>>
    /\ trackers[call.ed].range[1] < trackers[call.ed].range[2]
    /\ Len(doc[call.ed]) < trackers[call.ed].lastLength

\* The number of closing-pair characters the text ends with.
RECURSIVE TrailingPairEnds(_)
TrailingPairEnds(text) ==
    IF text # <<>> /\ last(text) \in pairsEnd
    THEN 1 + TrailingPairEnds(SubSeq(text, 1, Len(text) - 1))
    ELSE 0

\* The gate as stated, for a tracker rebuilt over `range` with the caret
\* at pos: an Error tracker is ended when the range ends at pos or when
\* stepping back from the range end over the closing-pair characters the
\* abbreviation ends with reaches pos.
EndedByGate(tracker, range, pos) ==
    /\ tracker.type = "error"
    /\ \/ range[2] = pos
       \/ range[2] - TrailingPairEnds(tracker.abbreviation) = pos

\* On a handleChange that reconciled a tracker (its lastPos within its
\* range, a tracker built from the adjusted range), the tracker is ended
\* exactly when it is not forced and EndedByGate holds of the tracker
\* built.
GateAsStated ==
    \A e \in Editors :
      (/\ call'.op = "handleChange" /\ call'.ed = e
       /\ trackers[e] # None
       /\ call'.path \in {"updated", "invalid"}) =>
        LET t == trackers[e]
            pos == lastPos'[e]
            range2 == updateRange(t.range, Len(doc'[e]) - t.lastLength, t.lastPos)
        IN  /\ call'.path = "updated" =>
                 /\ trackers'[e].range = range2
                 /\ t.forced \/ ~EndedByGate(trackers'[e], range2, pos)
            /\ call'.path = "invalid" =>
                 /\ ~t.forced /\ trackers'[e] = None
                 /\ \E expander \in ExpanderAnswers(t.config) :
                      LET nextTracker == createTracker(doc'[e], range2, t, expander)
                      IN  nextTracker # None /\ EndedByGate(nextTracker, range2, pos)

\* C25: after reconciliation in handleChange(pos) a non-forced Error
\* tracker stays active only if the new range end differs from pos and
\* the position reached by stepping back from the range end over the
\* trailing closing-pair characters of the abbreviation differs from pos,
\* and tracking ends otherwise; Valid and forced trackers are never ended
\* by the gate.
C25_GateStepsOverTrailingPairEnds == [][GateAsStated]_vars

\* The unresolved-fallback shape of a preview: the abbreviation echoed,
\* a colon, whitespace and at most one semicolon.
FallbackShape(preview, abbreviation) ==
    \E k \in 0..2, semicolon \in BOOLEAN :
      preview = abbreviation \o <<":">> \o [i \in 1..k |-> " "]
                  \o (IF semicolon THEN <<";">> ELSE <<>>)

\* C26: a Valid stylesheet tracker that typingAbbreviation creates in a
\* section context with a preview of the fallback shape is discarded: the
\* editor has no active tracker after the call (the tracker is unmarked
\* and left in the cache), and no tracker started by typing in a section
\* context has a preview of that shape.
C26_FallbackPreviewDiscarded ==
    \A e \in Editors :
      (call.op = "handleChange" /\ call.ed = e) =>
        /\ call.path = "suppressed" =>
             /\ trackers[e] = None
             /\ call.unmark = 1 /\ call.replace = 0
             /\ cache[e] # None
             /\ cache[e].type = "abbreviation"
             /\ cache[e].config.type = "stylesheet"
             /\ cache[e].config.context = ScopeSection
             /\ FallbackShape(cache[e].preview, cache[e].abbreviation)
        /\ (/\ call.path = "started" /\ trackers[e] # None
            /\ trackers[e].type = "abbreviation"
            /\ trackers[e].config.context = ScopeSection) =>
             ~FallbackShape(trackers[e].preview, trackers[e].abbreviation)

\* A typed character started a section tracker whose preview only echoed
\* it, and the tracker was dropped.
C26_Witness ==
    /\ call.op = "handleChange"
    /\ call.path = "suppressed"
    /\ trackers[call.ed] = None
    /\ cache[call.ed] # None
    /\ cache[call.ed].preview = cache[call.ed].abbreviation \o <<":", " ", ";">>

\* C27: stopTracking on an active forced tracker replaces the text in the
\* tracker's range with the empty string exactly once unless skipRemove is
\* set; on a non-forced tracker, with skipRemove or without an active
\* tracker it leaves the document alone. Stated of stopTracking applied in
\* every reachable state with every choice of its parameters, and of the
\* stopTracking calls taken.
C27_ForcedTextRemovedOnce ==
    [][\A e \in Editors :
         /\ \A skipRemove \in BOOLEAN, force \in BOOLEAN :
              LET after == stopTracking(Ctl, e, skipRemove, force)
                  t == trackers[e]
              IN  IF t # None /\ t.forced /\ ~skipRemove
                  THEN /\ after.replace = 1
                       /\ after.doc[e] = ReplaceEmpty(doc[e], t.range[1], t.range[2])
                       /\ \A f \in Editors \ {e} : after.doc[f] = doc[f]
                  ELSE after.replace = 0 /\ after.doc = doc
         /\ (call'.op = "stopTracking" /\ call'.ed = e) =>
              LET t == trackers[e]
              IN  /\ \A f \in Editors \ {e} : doc'[f] = doc[f]
                  /\ \/ call'.replace = 0 /\ doc'[e] = doc[e]
                     \/ /\ t # None /\ t.forced
                        /\ call'.replace = 1
                        /\ doc'[e] = ReplaceEmpty(doc[e], t.range[1], t.range[2])]_vars

\* stopTracking removed the text of a forced tracker from the document.
C27_Witness ==
    /\ call.op = "stopTracking"
    /\ call.replace = 1
    /\ call.unmark = 1
    /\ trackers[call.ed] = None
    /\ cache[call.ed] # None
    /\ cache[call.ed].forced
    /\ Len(doc[call.ed]) < cache[call.ed].lastLength

\* -------------------------------------------------------------------
\* Further properties of the context resolvers and the tag matcher
\* -------------------------------------------------------------------
\* The open tags among the first n tokens that no close tag has closed,
\* a close tag closing the innermost open tag when that has its name and
\* nothing otherwise; with skipEmpty the open tags of empty elements are
\* left out.
RECURSIVE OpenElements(_, _, _)
OpenElements(tokens, n, skipEmpty) ==
    IF n = 0 THEN <<>>
    ELSE
      LET s == OpenElements(tokens, n - 1, skipEmpty)
          t == tokens[n]
      IN  IF t.type = "Open" /\ ~(skipEmpty /\ t.name \in EmptyElements)
          THEN Append(s, t)
          ELSE IF t.type = "Close" /\ s # <<>> /\ s[Len(s)].name = t.name
          THEN SubSeq(s, 1, Len(s) - 1)
          ELSE s

\* The ancestors of the last getHTMLContext call are the elements
\* OpenElements gives for the tokens that end at or before pos.
AncestorsAreOpenElements(skipEmpty) ==
    LET tokens == HtmlTokens(call.code, 0)
        before == { k \in 1..Len(tokens) : tokens[k].end <= call.pos }
        s == OpenElements(tokens, Cardinality(before), skipEmpty)
    IN  /\ before = 1..Cardinality(before)
        /\ call.result.ancestors =
             [k \in 1..Len(s) |-> [name |-> s[k].name,
                                   range |-> <<s[k].start, s[k].end>>]]

\* C28, as stated: a Close token pops the stack iff the stack is not
\* empty and its top entry has the same name, any other Close token
\* changes nothing, and the ancestors are exactly the open tags before pos
\* not closed by such a matching close.
C28_AncestorsAreUnclosedOpens ==
    call.op = "getHTMLContext" => AncestorsAreOpenElements(FALSE)

\* C28, amended: the ancestors are exactly the open tags before pos not
\* closed by such a matching close, the open tags of empty elements (br)
\* left out unless the xml option is set.
C28_AncestorsSkipEmptyElements ==
    call.op = "getHTMLContext" => AncestorsAreOpenElements(~call.arg)

\* A close tag right after the open tag of another element was ignored:
\* that element is still the innermost ancestor.
C28_Witness ==
    /\ call.op = "getHTMLContext"
    /\ call.result.ancestors # <<>>
    /\ LET tokens == HtmlTokens(call.code, 0)
           top == call.result.ancestors[Len(call.result.ancestors)]
       IN  \E k \in 2..Len(tokens) :
             /\ tokens[k].type = "Close" /\ tokens[k].end <= call.pos
             /\ tokens[k].name # top.name
             /\ tokens[k - 1].start = top.range[1]

\* The straddle/stop rule on the result of the last context call over
\* `tokens`: the current token is the first one with start < pos < end
\* (or, with atEnd, with start < pos <= end) and there is none when no
\* token is so placed; every ancestor comes from a token that starts
\* before pos and ends at or before the start of the current token, so
\* that the current token is no ancestor and nothing after it was read.
StraddleRule(tokens, atEnd) ==
    LET pos == call.pos
        r == call.result
        hits == { k \in 1..Len(tokens) :
                    /\ tokens[k].start < pos
                    /\ pos < tokens[k].end \/ (atEnd /\ pos = tokens[k].end) }
    IN  /\ (r.current = None) <=> (hits = {})
        /\ hits # {} =>
             LET t == tokens[CHOOSE k \in hits : \A j \in hits : k <= j]
             IN  /\ r.current.type = t.type /\ r.current.name = t.name
                 /\ r.current.range = <<t.start, t.end>>
                 /\ \A k \in 1..Len(r.ancestors) :
                      /\ r.ancestors[k].range # r.current.range
                      /\ r.ancestors[k].range[2] <= t.start
        /\ \A k \in 1..Len(r.ancestors) :
             /\ r.ancestors[k].range[1] < pos
             /\ \E j \in 1..Len(tokens) :
                  /\ r.ancestors[k].range = <<tokens[j].start, tokens[j].end>>
                  /\ j \notin hits
                  /\ \A h \in hits : j < h

\* C29, as stated: the markup and the stylesheet context resolver apply
\* the same rule: scanning stops at the first token with start >= pos, a
\* token is current exactly when start < pos < end, which ends the scan,
\* a token that ends at pos is not current, and the current token is
\* never an ancestor.
C29_SameStraddleRule ==
    /\ call.op = "getHTMLContext" => StraddleRule(HtmlTokens(call.code, 0), FALSE)
    /\ call.op = "getCSSContext" => StraddleRule(CssTokens(call.code, 0), FALSE)

\* C29, amended: the markup resolver makes a token current exactly when
\* start < pos < end, the stylesheet resolver exactly when
\* start < pos <= end: in a stylesheet a token that ends at pos is
\* current. The rest of the rule is common to both.
C29_StraddleRuleUpToEndInStylesheet ==
    /\ call.op = "getHTMLContext" => StraddleRule(HtmlTokens(call.code, 0), FALSE)
    /\ call.op = "getCSSContext" => StraddleRule(CssTokens(call.code, 0), TRUE)

\* The stylesheet resolver made the token that ends at pos current, with
\* an ancestor before it.
C29_Witness ==
    /\ call.op = "getCSSContext"
    /\ call.result.current # None
    /\ call.result.current.range[2] = call.pos
    /\ call.result.ancestors # <<>>

\* The tokens (by index) open after the first n tokens: an open tag is
\* pushed, a close tag pops up to and including the innermost open tag of
\* its name, and everything when there is none.
RECURSIVE OpenTagsAfter(_, _)
OpenTagsAfter(tokens, n) ==
    IF n = 0 THEN <<>>
    ELSE
      LET s == OpenTagsAfter(tokens, n - 1)
          t == tokens[n]
          same == { k \in 1..Len(s) : tokens[s[k]].name = t.name }
      IN  IF t.type = "SelfClose" THEN s
          ELSE IF t.type = "Open" THEN Append(s, n)
          ELSE IF same = {} THEN <<>>
          ELSE SubSeq(s, 1, (CHOOSE x \in same : \A y \in same : y <= x) - 1)

\* The close tags (by index) that close the open tag i: those that find
\* i as the innermost open tag of their name.
ClosersOf(tokens, i) ==
    { j \in (i + 1)..Len(tokens) :
        /\ tokens[j].type = "Close" /\ tokens[j].name = tokens[i].name
        /\ LET s == OpenTagsAfter(tokens, j - 1)
           IN  \E k \in 1..Len(s) :
                 /\ s[k] = i
                 /\ \A h \in (k + 1)..Len(s) : tokens[s[h]].name # tokens[j].name }

\* C30: getTagMatches lists one match per open or self-closing tag, in
\* document order; a self-closing tag has no close; an open tag has the
\* range of the close tag that found it as the innermost open entry of
\* its name, and no close when it was popped for another name or never
\* closed; a close tag without an open entry of its name closes nothing;
\* no close range belongs to two matches.
C30_TagMatchesPairByName ==
    call.op = "findTagMatch" =>
      LET tokens == HtmlTokens(call.code, 0)
          tags == { k \in 1..Len(tokens) : tokens[k].type \in {"Open", "SelfClose"} }
          matches == getTagMatches(call.code)
          \* index of the token of the n-th match
          tag(n) == CHOOSE k \in tags : Cardinality({ j \in tags : j <= k }) = n
      IN  /\ Len(matches) = Cardinality(tags)
          /\ \A n \in 1..Len(matches) :
               LET i == tag(n)
                   closers == ClosersOf(tokens, i)
               IN  /\ matches[n].name = tokens[i].name
                   /\ matches[n].open = <<tokens[i].start, tokens[i].end>>
                   /\ Cardinality(closers) <= 1
                   /\ IF tokens[i].type = "Open" /\ closers # {}
                      THEN \E j \in closers :
                             matches[n].close = <<tokens[j].start, tokens[j].end>>
                      ELSE matches[n].close = None
          /\ \A a \in 1..Len(matches), b \in 1..Len(matches) :
               a < b =>
                 /\ matches[a].open[1] < matches[b].open[1]
                 /\ matches[a].close = None \/ matches[a].close # matches[b].close
          /\ call.result # None => \E n \in 1..Len(matches) : matches[n] = call.result

\* A close tag closed an outer element over an inner open tag of another
\* name, which stays without close, and findTagMatch found the outer one.
C30_Witness ==
    /\ call.op = "findTagMatch"
    /\ call.result # None
    /\ call.result.close # None
    /\ LET matches == getTagMatches(call.code)
       IN  \E b \in 1..Len(matches) :
             /\ matches[b].close = None
             /\ matches[b].name # call.result.name
             /\ call.result.open[2] <= matches[b].open[1]
             /\ matches[b].open[2] <= call.result.close[1]
             /\ \E k \in 1..Len(HtmlTokens(call.code, 0)) :
                  /\ HtmlTokens(call.code, 0)[k].type = "Open"
                  /\ HtmlTokens(call.code, 0)[k].start = matches[b].open[1]

\* -------------------------------------------------------------------
\* Further properties of the stylesheet select-unit functions and of the
\* section locator
\* -------------------------------------------------------------------
\* Index of the first token that starts at or after pos, 0 when there is
\* none.
FirstFrom(tokens, pos) ==
    LET from == { k \in 1..Len(tokens) : tokens[k].start >= pos }
    IN  IF from = {} THEN 0 ELSE CHOOSE k \in from : \A j \in from : k <= j

\* C31: selectItemCSS (next): when the first token starting at or after
\* pos is a PropertyName not followed by a PropertyValue, also when the
\* tokens end with it, the result is the model whose start, end and only
\* range are the span of the name.
C31_PendingNameDegradesToName ==
    (call.op = "selectItemCSS" /\ ~call.arg) =>
      LET tokens == CssTokens(call.code, 0)
          k == FirstFrom(tokens, call.pos)
      IN  (/\ k # 0 /\ tokens[k].type = "propertyName"
           /\ k = Len(tokens) \/ tokens[k + 1].type # "propertyValue") =>
            call.result = [start |-> tokens[k].start, end |-> tokens[k].end,
                           ranges |-> << <<tokens[k].start, tokens[k].end>> >>]

\* The result of selectItemCSS (previous) told from the tokens: the scan
\* reads the tokens before the first Selector, PropertyName or BlockEnd
\* token that starts at or after pos; the result is built from the last
\* Selector or PropertyName token read and, for a name, the last value
\* token read after it. With valuesAfter a value token that starts after
\* pos is read like one that starts at pos; without, only a value token
\* that starts at or before pos is.
PreviousItemFrom(valuesAfter) ==
    LET tokens == CssTokens(call.code, 0)
        pos == call.pos
        stops == { k \in 1..Len(tokens) :
                     tokens[k].start >= pos /\ tokens[k].type # "propertyValue" }
        stop == IF stops = {} THEN Len(tokens) + 1
                ELSE CHOOSE k \in stops : \A j \in stops : k <= j
        heads == { k \in 1..(stop - 1) : tokens[k].type \in {"selector", "propertyName"} }
    IN  IF heads = {} THEN call.result = None
        ELSE
          LET h == CHOOSE k \in heads : \A j \in heads : j <= k
              values == { k \in (h + 1)..(stop - 1) :
                            /\ tokens[k].type = "propertyValue"
                            /\ valuesAfter \/ tokens[k].start <= pos }
          IN  /\ tokens[h].start < pos
              /\ IF tokens[h].type = "selector" \/ values = {}
                 THEN call.result = [start |-> tokens[h].start, end |-> tokens[h].end,
                                     ranges |-> << <<tokens[h].start, tokens[h].end>> >>]
                 ELSE LET v == tokens[CHOOSE k \in values : \A j \in values : j <= k]
                          end == IF v.delimiter # -1 THEN v.delimiter + 1 ELSE v.end
                      IN  /\ call.result.start = tokens[h].start
                          /\ call.result.end = end
                          /\ call.result.ranges =
                               ValueRanges(pushRange(<<>>, <<tokens[h].start, end>>),
                                           v.start, v.end, v.frags)

\* C32, as stated: selectItemCSS (previous) builds its result from the
\* latest Selector or PropertyName token starting before pos and any value
\* following it, and stops as soon as a token starts at or after pos,
\* except for a PropertyValue token bracketing pos; no other token that
\* starts at or after pos contributes to the result.
C32_PreviousStopsAtPos ==
    (call.op = "selectItemCSS" /\ call.arg) => PreviousItemFrom(FALSE)

\* C32, amended: no PropertyValue token ends the scan: a value token that
\* starts at or after pos, bracketing pos or not, is the value of the
\* result when it follows the latest name before any other token that
\* starts at or after pos.
C32_PreviousReadsValuesPastPos ==
    (call.op = "selectItemCSS" /\ call.arg) => PreviousItemFrom(TRUE)

\* The result of selectItemCSS (previous) includes a value that starts
\* after pos.
C32_Witness ==
    /\ call.op = "selectItemCSS" /\ call.arg
    /\ call.result # None
    /\ Len(call.result.ranges) >= 2
    /\ call.result.ranges[2][1] > call.pos

\* The selector tokens (by index) open after the first n tokens: a
\* selector is pushed, the end of a block pops the one opened last.
RECURSIVE OpenSelectorsAfter(_, _)
OpenSelectorsAfter(tokens, n) ==
    IF n = 0 THEN <<>>
    ELSE
      LET s == OpenSelectorsAfter(tokens, n - 1)
      IN  IF tokens[n].type = "selector" THEN Append(s, n)
          ELSE IF tokens[n].type = "blockEnd" /\ s # <<>>
          THEN SubSeq(s, 1, Len(s) - 1)
          ELSE s

\* C33: getCSSSection returns the innermost rule block enclosing pos:
\* each BlockEnd is paired with the selector opened last and not yet
\* closed; the first pair with selector start <= pos <= block end is
\* returned, bodyStart one past the delimiter of the selector and bodyEnd
\* the start of the BlockEnd; nothing is returned when no pair encloses
\* pos, and no other pair that encloses pos lies within the one returned.
\* The pairs are told from all the tokens, so that the early stop of the
\* scan misses none.
C33_InnermostEnclosingSection ==
    call.op = "getCSSSection" =>
      LET tokens == CssTokens(call.code, 0)
          pos == call.pos
          sel(j) == LET s == OpenSelectorsAfter(tokens, j - 1) IN s[Len(s)]
          enclosing == { j \in 1..Len(tokens) :
                           /\ tokens[j].type = "blockEnd"
                           /\ OpenSelectorsAfter(tokens, j - 1) # <<>>
                           /\ tokens[sel(j)].start <= pos /\ pos <= tokens[j].end }
      IN  IF enclosing = {} THEN call.result = None
          ELSE LET j == CHOOSE x \in enclosing : \A y \in enclosing : x <= y
               IN  /\ call.result # None
                   /\ call.result.start = tokens[sel(j)].start
                   /\ call.result.end = tokens[j].end
                   /\ call.result.bodyStart = tokens[sel(j)].delimiter + 1
                   /\ call.result.bodyEnd = tokens[j].start
                   /\ \A y \in enclosing \ {j} :
                        ~(/\ call.result.start <= tokens[sel(y)].start
                          /\ tokens[y].end <= call.result.end)

\* The section returned lies inside another block that encloses pos too,
\* and pos is at the very end of the section.
C33_Witness ==
    /\ call.op = "getCSSSection"
    /\ call.result # None
    /\ call.result.end = call.pos
    /\ LET tokens == CssTokens(call.code, 0)
       IN  \E k \in 1..Len(tokens) :
             /\ tokens[k].type = "selector"
             /\ tokens[k].start < call.result.start

\* The PropertyName tokens (by index) directly inside the section the last
\* getCSSSection call returned: within its body, and with its selector as
\* the selector opened last.
DirectNames ==
    LET tokens == CssTokens(call.code, 0)
    IN  { k \in 1..Len(tokens) :
            /\ tokens[k].type = "propertyName"
            /\ call.result.bodyStart <= tokens[k].start
            /\ tokens[k].end <= call.result.bodyEnd
            /\ LET s == OpenSelectorsAfter(tokens, k - 1)
               IN  s # <<>> /\ tokens[s[Len(s)]].start = call.result.start }

\* The n-th of a set of indices, in increasing order.
Nth(S, n) == CHOOSE k \in S : Cardinality({ j \in S : j <= k }) = n

\* C34: with properties requested, getCSSSection returns exactly one
\* property per PropertyName token directly inside the body of the
\* section, in document order, a name without value included; the
\* declarations inside nested blocks are left out.
C34_OnePropertyPerDeclaration ==
    (call.op = "getCSSSection" /\ call.arg /\ call.result # None) =>
      LET tokens == CssTokens(call.code, 0)
          properties == call.result.properties
      IN  /\ Len(properties) = Cardinality(DirectNames)
          /\ \A n \in 1..Len(properties) :
               n <= Cardinality(DirectNames) =>
                 properties[n].name = <<tokens[Nth(DirectNames, n)].start,
                                        tokens[Nth(DirectNames, n)].end>>

\* The token k lies directly inside the section the last getCSSSection
\* call returned.
DirectlyInside(k) ==
    LET tokens == CssTokens(call.code, 0)
        s == OpenSelectorsAfter(tokens, k - 1)
    IN  /\ call.result.bodyStart <= tokens[k].start
        /\ tokens[k].end <= call.result.bodyEnd
        /\ s # <<>> /\ tokens[s[Len(s)]].start = call.result.start

\* The names directly inside the section that a later name or value
\* directly inside it follows: those parseProperties makes a property for.
FollowedNames ==
    LET tokens == CssTokens(call.code, 0)
    IN  { k \in DirectNames :
            \E j \in (k + 1)..Len(tokens) :
              tokens[j].type \in {"propertyName", "propertyValue"} /\ DirectlyInside(j) }

\* The property of a name directly followed by another name, its empty
\* value placed at valuePos(first, second) for the tokens of the two names.
EmptyValueAt(valuePos(_, _)) ==
    (call.op = "getCSSSection" /\ call.arg /\ call.result # None) =>
      LET tokens == CssTokens(call.code, 0)
          properties == call.result.properties
      IN  /\ Len(properties) = Cardinality(FollowedNames)
          /\ \A n \in 1..Len(properties) :
               LET k == Nth(FollowedNames, n)
                   next == { j \in (k + 1)..Len(tokens) :
                               /\ tokens[j].type \in {"propertyName", "propertyValue"}
                               /\ DirectlyInside(j) }
                   j == CHOOSE x \in next : \A y \in next : x <= y
               IN  /\ properties[n].name = <<tokens[k].start, tokens[k].end>>
                   /\ tokens[j].type = "propertyName" =>
                        LET at == valuePos(tokens[k], tokens[j])
                        IN  /\ properties[n].value = <<at, at>>
                            /\ properties[n].valueTokens = <<>>

SecondNameStart(first, second) == second.start
FirstNameDelimiter(first, second) == first.delimiter

\* C35, as stated: in the property list of getCSSSection a PropertyName
\* immediately followed by another PropertyName yields, for the first
\* name, a property whose value range is empty and placed at the start of
\* the second name.
C35_EmptyValueAtSecondName == EmptyValueAt(SecondNameStart)

\* C35, amended: the empty value range is placed at the delimiter of the
\* first name.
C35_EmptyValueAtFirstDelimiter == EmptyValueAt(FirstNameDelimiter)

\* A property list whose first property has an empty value and whose
\* second property has a value.
C35_Witness ==
    /\ call.op = "getCSSSection" /\ call.arg
    /\ call.result # None
    /\ Len(call.result.properties) = 2
    /\ call.result.properties[1].value[1] = call.result.properties[1].value[2]
    /\ call.result.properties[2].value[1] < call.result.properties[2].value[2]

\* -------------------------------------------------------------------
\* Frame properties of the tracking controller
\* -------------------------------------------------------------------
\* C36: every tracker in the active map or in the restore cache has
\* 0 <= range[0] < range[1], after any sequence of controller operations.
C36_RangesWithinDocument ==
    \A e \in Editors :
      /\ trackers[e] # None =>
           0 <= trackers[e].range[1] /\ trackers[e].range[1] < trackers[e].range[2]
      /\ cache[e] # None =>
           0 <= cache[e].range[1] /\ cache[e].range[1] < cache[e].range[2]


\* C37: a startTracking call whose tracker construction fails removes the
\* tracker active for that editor, if any, and does nothing else: the
\* editor is neither marked nor unmarked, no text is replaced, and the
\* documents, the restore cache, the last carets and the other editors'
\* trackers are left as they were.
C37_FailedStartDropsTracker ==
    [][\A e \in Editors :
         (call'.op = "startTracking" /\ call'.ed = e /\ call'.path = "startfail") =>
           /\ trackers' = [trackers EXCEPT ![e] = None]
           /\ cache' = cache
           /\ doc' = doc
           /\ lastPos' = lastPos
           /\ call'.mark = 0 /\ call'.unmark = 0 /\ call'.replace = 0]_vars

\* A forced tracker is active over text of the document when startTracking
\* is called with an empty range: the tracker is removed, its text stays.
C37_Witness ==
    \E e \in open :
      /\ steps < MaxCalls
      /\ trackers[e] # None /\ trackers[e].forced
      /\ Substr(doc[e], trackers[e].range[1] + trackers[e].offset, trackers[e].range[2])
           = trackers[e].abbreviation
      /\ \E pos \in Carets(e), config \in UserConfigs :
           \E expander \in ExpanderAnswers(config) :
             LET r == startTracking(Ctl, e, pos, pos,
                        [offset |-> 0, config |-> config, forced |-> FALSE], expander)
             IN  /\ r.path = "startfail"
                 /\ r.c.trackers[e] = None
                 /\ r.c.cache[e] = None
                 /\ r.c.doc[e] = doc[e]
                 /\ r.c.unmark = 0

\* C38: handleSelectionChange(pos) on an editor with an active tracker
\* keeps that tracker active and changes only its lastPos and the editor's
\* last caret, both to pos, wherever pos lies; the restore cache, the
\* documents and the editor's marks are untouched. A tracker whose lastPos
\* the caret has moved out of its range is ended by the handleChange that
\* follows, not by the caret move.
C38_CaretMoveKeepsTracker ==
    [][\A e \in Editors :
         (call'.ed = e /\ trackers[e] # None) =>
           /\ call'.op = "handleSelectionChange" =>
                /\ call'.path = "active"
                /\ trackers' = [trackers EXCEPT ![e].lastPos = lastPos'[e]]
                /\ \A f \in Editors \ {e} : lastPos'[f] = lastPos[f]
                /\ cache' = cache
                /\ doc' = doc
                /\ call'.mark = 0 /\ call'.unmark = 0 /\ call'.replace = 0
           /\ (call'.op = "handleChange"
                 /\ OutsideRange(trackers[e].lastPos, trackers[e].range)) =>
                trackers'[e] = None /\ call'.unmark = 1]_vars

\* The caret left the range of an active tracker that was not forced while
\* another tracker is cached: the tracker is still active.
C38_Witness ==
    \E e \in open :
      /\ call.op = "handleSelectionChange" /\ call.ed = e /\ call.path = "active"
      /\ trackers[e] # None /\ ~trackers[e].forced
      /\ trackers[e].lastPos = lastPos[e]
      /\ OutsideRange(lastPos[e], trackers[e].range)
      /\ cache[e] # None

\* C39: stopTracking on an editor with no active tracker changes nothing,
\* with or without force: the documents, the last carets, the cached and
\* the active trackers stay as they were, and the editor is neither
\* unmarked nor edited.
C39_StopWithoutTrackerIsNoop ==
    [][\A e \in Editors :
         (call'.op = "stopTracking" /\ call'.ed = e /\ trackers[e] = None) =>
           /\ doc' = doc
           /\ lastPos' = lastPos
           /\ cache' = cache
           /\ trackers' = trackers
           /\ call'.unmark = 0 /\ call'.replace = 0 /\ call'.mark = 0]_vars

\* A forced stop on an editor without active tracker left the cached
\* tracker and the last caret in place.
C39_Witness ==
    \E e \in open :
      /\ call.op = "stopTracking" /\ call.ed = e /\ call.path = "force"
      /\ call.unmark = 0
      /\ trackers[e] = None
      /\ cache[e] # None
      /\ lastPos[e] # NoPos
      /\ doc[e] # <<>>

\* C40: a tracker that handleChange keeps active has the forced flag, the
\* prefix offset and the config of the tracker it found; the tracker that
\* replaces the old one covers the adjusted range, its abbreviation is the
\* document text of that range without the first `offset` characters, its
\* lastPos is the caret reported and its lastLength the document length.
C40_ReconcileCarriesParams ==
    [][\A e \in Editors :
         (call'.op = "handleChange" /\ call'.ed = e
            /\ trackers[e] # None /\ trackers'[e] # None) =>
           LET old == trackers[e]
               new == trackers'[e]
           IN  /\ new.forced = old.forced
               /\ new.offset = old.offset
               /\ new.config = old.config
               /\ call'.path \in {"updated", "forcedEmpty"}
               /\ call'.path = "updated" =>
                    /\ new.range = updateRange(old.range,
                                               Len(doc'[e]) - old.lastLength, old.lastPos)
                    /\ new.abbreviation
                         = Slice(Substr(doc'[e], new.range[1], new.range[2]), old.offset)
                    /\ new.lastPos = lastPos'[e]
                    /\ new.lastLength = Len(doc'[e])]_vars

\* A forced stylesheet tracker with a prefix offset was replaced after an
\* edit that changed its text.
C40_Witness ==
    \E e \in open :
      /\ call.op = "handleChange" /\ call.ed = e /\ call.path = "updated"
      /\ trackers[e] # None
      /\ trackers[e].forced
      /\ trackers[e].offset = 1
      /\ trackers[e].config.type = "stylesheet"
      /\ Len(trackers[e].abbreviation) = 2
      /\ trackers[e].lastLength = Len(doc[e])
      /\ trackers[e].lastPos = lastPos[e]

====
